---- MODULE Spec2Model ----
(***************************************************************************)
(* Model of the pipeline execution engine of internal/factory/engine.go:   *)
(* RunPipeline, Engine.executeFrom, Engine.executeNode, the checkpoint and *)
(* resume logic, the write-allowlist guardrail and deterministic routing.  *)
(*                                                                         *)
(* Strings that the code inspects character by character (workspace paths  *)
(* and allowlist entries) are sequences of one-character strings.  Node    *)
(* ids, outcome tags and edge conditions are TLA+ strings; the lexical     *)
(* order of node ids is given by IdOrder.                                  *)
(***************************************************************************)
EXTENDS Integers, Sequences, FiniteSets, TLC

VARIABLES
    scenario,    \* the pipeline file and environment of this behaviour
    pc,          \* position of the running RunPipeline call ("idle" = none)
    cfg,         \* RunConfig and environment of the running call
    current,     \* executeFrom: current node id
    attempt,     \* executeNode: loop variable attempt
    out,         \* executeNode / executeFrom: the Outcome of the stage
    Context,     \* Engine.Context
    RetryCount,  \* Engine.RetryCount
    Completed,   \* Engine.Completed (set of ids mapped to true)
    ret,         \* result of the last RunPipeline call that returned
    checkpoint,  \* checkpoint.json of every run directory
    status,      \* <node>/status.json of every run directory
    workspace,   \* workspace/ of every run directory: path -> content version
    hist,        \* per run directory: events.jsonl, trace.jsonl records,
                 \* artifact writes, handler invocations and the outcome of
                 \* each attempt, in the order they were produced
    calls,       \* number of RunPipeline calls made so far
    crashes,     \* number of process crashes so far
    rEdges,      \* routing harness: Graph.Edges
    rFrom,       \* routing harness: argument from
    rOutcome,    \* routing harness: argument outcome
    rResult,     \* routing harness: value returned by selectNext
    rPc,         \* routing harness: "input" or "routed"
    fCmd,        \* tool harness: the tool_command attribute of the node
    fResult,     \* tool harness: what toolHandler.Execute returned
    fPc,         \* tool harness: "input" or "ran"
    hIn,         \* read scoping: workspace, block list and options given to Run
    hFs,         \* read scoping: the workspace and the hidden directories
    hHidden,     \* read scoping: codexAgent.Run's hiddenPaths
    hLog,        \* read scoping: the exit path taken, what the agent created
                 \* again, the error of the last restore
    hPc,         \* read scoping: position in codexAgent.Run
    vIn,         \* verification harness: the plan, the allowlist, the workspace
                 \* files and the exit code each command would give
    vOut,        \* verification harness: what verificationHandler.Execute
                 \* returned, ran and wrote
    vPc,         \* verification harness: "input" or "ran"
    gIn,         \* graph harness: the Graph given to ValidateGraph
    gOut,        \* graph harness: the diagnostics, and the node executeNode
                 \* was called for with the handler it ran
    gPc,         \* graph harness: "input", "validated" or "executed"
    xIn,         \* subprocess harness: the program that runs the subprocess
                 \* and the writes the subprocess makes, in order
    xProc,       \* subprocess harness: the writes still to make, exited or not
    xPipe,       \* subprocess harness: per stream, the bytes in the pipe and
                 \* whether the parent's read end is closed
    xRead,       \* subprocess harness: per stream, the state of the reader
                 \* and the bytes it has read
    xMain,       \* subprocess harness: position and result of the goroutine
                 \* that started the subprocess
    xBeat        \* subprocess harness: the heartbeat goroutine and its ticker

engineVars == <<scenario, pc, cfg, current, attempt, out, Context, RetryCount,
                Completed, ret, checkpoint, status, workspace,
                hist, calls, crashes>>
routeVars == <<rEdges, rFrom, rOutcome, rResult, rPc>>
filterVars == <<fCmd, fResult, fPc>>
hideVars == <<hIn, hFs, hHidden, hLog, hPc>>
verifyVars == <<vIn, vOut, vPc>>
graphVars == <<gIn, gOut, gPc>>
pipeVars == <<xIn, xProc, xPipe, xRead, xMain, xBeat>>
harnessVars == <<routeVars, filterVars, hideVars, verifyVars, graphVars, pipeVars>>
vars == <<scenario, pc, cfg, current, attempt, out, Context, RetryCount,
          Completed, ret, checkpoint, status, workspace,
          hist, calls, crashes, rEdges, rFrom, rOutcome, rResult, rPc,
          fCmd, fResult, fPc, hIn, hFs, hHidden, hLog, hPc, vIn, vOut, vPc,
          gIn, gOut, gPc, xIn, xProc, xPipe, xRead, xMain, xBeat>>

----------------------------------------------------------------------------
(* Bounds of the model *)

\* longest edge list given to the routing harness
MaxEdges == 3
\* largest number of stages started in one run directory
MaxStages == 6
\* largest number of RunPipeline calls in one behaviour
MaxCalls == 2
\* largest number of process crashes in one behaviour
MaxCrashes == 1
\* largest number of workspace paths one handler invocation changes
MaxWrites == 2
\* longest tool_command given to the tool harness, in characters
MaxCmdLen == 5
\* largest number of entries of codex.block_read_paths
MaxBlocked == 3
\* the os.Rename calls of one codexAgent.Run of which one may be refused
MaxFailAt == 2
\* largest number of commands of a verification plan
MaxPlan == 3
\* largest number of pieces a verification command is put together from
MaxPieces == 4

----------------------------------------------------------------------------
(* Generic helpers *)

Last(s) == s[Len(s)]

RECURSIVE SeqToSet(_)
SeqToSet(s) == IF s = <<>> THEN {} ELSE {Head(s)} \cup SeqToSet(Tail(s))

RECURSIVE FilterSeq(_, _)
\* the subsequence of s whose elements are in the set keep
FilterSeq(s, keep) ==
    IF s = <<>> THEN <<>>
    ELSE IF Head(s) \in keep THEN <<Head(s)>> \o FilterSeq(Tail(s), keep)
         ELSE FilterSeq(Tail(s), keep)

\* strings.HasPrefix / strings.HasSuffix / strings.TrimSuffix on character sequences
HasPrefix(s, p) == Len(p) <= Len(s) /\ SubSeq(s, 1, Len(p)) = p
HasSuffix(s, p) == Len(p) <= Len(s) /\ SubSeq(s, Len(s) - Len(p) + 1, Len(s)) = p
TrimSuffix(s, p) == IF HasSuffix(s, p) THEN SubSeq(s, 1, Len(s) - Len(p)) ELSE s

\* unicode.IsSpace on the characters of the model
IsSpace(c) == c \in {" ", "\t", "\n", "\r"}

RECURSIVE TrimLeft(_)
TrimLeft(s) == IF s # <<>> /\ IsSpace(Head(s)) THEN TrimLeft(Tail(s)) ELSE s
RECURSIVE TrimRight(_)
TrimRight(s) == IF s # <<>> /\ IsSpace(Last(s)) THEN TrimRight(SubSeq(s, 1, Len(s) - 1)) ELSE s
\* strings.TrimSpace
TrimSpace(s) == TrimRight(TrimLeft(s))

----------------------------------------------------------------------------
(* Lexical order of node ids (Go string comparison) *)

\* every node id of the model, in ascending lexical order
IdOrder == <<"a", "b", "c", "exit", "fix", "start", "t">>
AllIds == SeqToSet(IdOrder)
Rank(id) == CHOOSE i \in 1..Len(IdOrder) : IdOrder[i] = id
StrLess(x, y) == Rank(x) < Rank(y)

RECURSIVE InsertString(_, _)
InsertString(x, s) ==
    IF s = <<>> THEN <<x>>
    ELSE IF StrLess(x, Head(s)) THEN <<x>> \o s
         ELSE <<Head(s)>> \o InsertString(x, Tail(s))

RECURSIVE SortStrings(_)
\* sort.Strings on node ids
SortStrings(s) ==
    IF s = <<>> THEN <<>> ELSE InsertString(Head(s), SortStrings(Tail(s)))

RECURSIVE SetToSeq(_)
\* a Go map iteration: some enumeration of the set
SetToSeq(S) == IF S = {} THEN <<>>
               ELSE LET x == CHOOSE y \in S : \A z \in S : ~StrLess(y, z)
                    IN <<x>> \o SetToSeq(S \ {x})

----------------------------------------------------------------------------
(* Outcome tags and edge conditions *)

Tags == {"success", "fail", "retry", "partial_success"}

\* the string "outcome=" + outcome
OutcomeCond(outcome) ==
    CASE outcome = "success" -> "outcome=success"
      [] outcome = "fail" -> "outcome=fail"
      [] outcome = "retry" -> "outcome=retry"
      [] outcome = "partial_success" -> "outcome=partial_success"
      [] OTHER -> "outcome=?"

----------------------------------------------------------------------------
(* Deterministic routing: Engine.selectNext *)

routeLess_tieDescending(ei, ej) ==
    IF ei.weight # ej.weight THEN ei.weight > ej.weight
    ELSE StrLess(ej.To, ei.To)

\* the comparison function handed to sort.Slice
routeLess(ei, ej) ==
    IF ei.weight # ej.weight THEN ei.weight > ej.weight
    ELSE StrLess(ei.To, ej.To)

RECURSIVE InsertEdge(_, _)
InsertEdge(x, s) ==
    IF s = <<>> THEN <<x>>
    ELSE IF routeLess(x, Head(s)) THEN <<x>> \o s
         ELSE <<Head(s)>> \o InsertEdge(x, Tail(s))

RECURSIVE sortSlice(_)
\* sort.Slice(pick, less)
sortSlice(pick) ==
    IF pick = <<>> THEN <<>> ELSE InsertEdge(Head(pick), sortSlice(Tail(pick)))

RECURSIVE collectEdges(_, _, _, _)
\* the loop over e.Graph.Edges: <<conditionals, unconditionals>>
collectEdges(edges, from, outcome, acc) ==
    IF edges = <<>> THEN acc
    ELSE LET edge == Head(edges)
             acc2 == IF edge.From # from THEN acc
                     ELSE IF edge.condition = "" THEN <<acc[1], Append(acc[2], edge)>>
                     ELSE IF edge.condition = OutcomeCond(outcome)
                          THEN <<Append(acc[1], edge), acc[2]>>
                          ELSE acc
         IN collectEdges(Tail(edges), from, outcome, acc2)

selectNext_stay(edges, from, outcome) == from

selectNext(edges, from, outcome) ==
    LET parts == collectEdges(edges, from, outcome, <<(<<>>), (<<>>)>>)
        pick == IF Len(parts[1]) = 0 THEN parts[2] ELSE parts[1]
    IN IF Len(pick) = 0 THEN "" ELSE sortSlice(pick)[1].To

----------------------------------------------------------------------------
(* Routing harness: selectNext applied to arbitrary edge lists *)

REdgeDomain == [From : {"a", "b"}, To : {"b", "c"},
                condition : {"", "outcome=success", "outcome=fail"},
                weight : {0, 1}]

InitRoute ==
    /\ rEdges = <<>>
    /\ rFrom = "a"
    /\ rOutcome \in {"success", "retry"}
    /\ rResult = ""
    /\ rPc = "input"

AddEdge ==
    /\ rPc = "input"
    /\ Len(rEdges) < MaxEdges
    /\ \E e \in REdgeDomain : rEdges' = Append(rEdges, e)
    /\ UNCHANGED <<rFrom, rOutcome, rResult, rPc>>

Route ==
    /\ rPc = "input"
    /\ rResult' = selectNext(rEdges, rFrom, rOutcome)
    /\ rPc' = "routed"
    /\ UNCHANGED <<rEdges, rFrom, rOutcome>>

----------------------------------------------------------------------------
(* Workspace paths, snapshots and diffs *)

PA == <<"a">>
PAsp == <<"a", " ">>
PS == <<"s">>
PSX == <<"s", "/", "x">>
PSx == <<"s", "x">>
\* every workspace path of the model, in ascending byte order
PathOrder == <<PA, PAsp, PS, PSX, PSx>>
Paths == SeqToSet(PathOrder)
PathRank(p) == CHOOSE i \in 1..Len(PathOrder) : PathOrder[i] = p
PathLess(x, y) == PathRank(x) < PathRank(y)

\* a workspace maps every path to its content version, 0 for an absent file
EmptyWorkspace == [p \in Paths |-> 0]

\* snapshotWorkspace: the regular files with their size and hash
snapshotWorkspace(ws) == [p \in {q \in Paths : ws[q] # 0} |-> ws[p]]

RECURSIVE InsertPath(_, _)
InsertPath(x, s) ==
    IF s = <<>> THEN <<x>>
    ELSE IF PathLess(x, Head(s)) THEN <<x>> \o s
         ELSE <<Head(s)>> \o InsertPath(x, Tail(s))

RECURSIVE SortPaths(_)
\* sort.Strings on workspace paths
SortPaths(s) ==
    IF s = <<>> THEN <<>> ELSE InsertPath(Head(s), SortPaths(Tail(s)))

RECURSIVE PathSetToSeq(_)
\* a Go map iteration over paths: some enumeration of the set
PathSetToSeq(S) == IF S = {} THEN <<>>
                   ELSE LET x == CHOOSE y \in S : \A z \in S : ~PathLess(y, z)
                        IN <<x>> \o PathSetToSeq(S \ {x})

\* sorted list of a set of paths
SortedPaths(S) == SortPaths(PathSetToSeq(S))

computeDiff(before, after) ==
    [Created |-> SortedPaths({p \in DOMAIN after : p \notin DOMAIN before}),
     Modified |-> SortedPaths({p \in DOMAIN after : p \in DOMAIN before /\ before[p] # after[p]}),
     Deleted |-> SortedPaths({p \in DOMAIN before : p \notin DOMAIN after})]

pathAllowed(path, allowed) ==
    LET pth == TrimSpace(path)
    IN \E i \in 1..Len(allowed) :
        IF HasSuffix(allowed[i], <<"/">>)
        THEN LET dir == TrimSuffix(allowed[i], <<"/">>)
             IN pth = dir \/ HasPrefix(pth, dir \o <<"/">>)
        ELSE pth = allowed[i]

RECURSIVE normalizeAllowed(_)
\* the loop building normalized: trimmed, non-empty entries
normalizeAllowed(allowed) ==
    IF allowed = <<>> THEN <<>>
    ELSE LET e == TrimSpace(Head(allowed))
         IN (IF e # <<>> THEN <<e>> ELSE <<>>) \o normalizeAllowed(Tail(allowed))

RECURSIVE violationsOf(_, _)
violationsOf(all, normalized) ==
    IF all = <<>> THEN <<>>
    ELSE (IF pathAllowed(Head(all), normalized) THEN <<>> ELSE <<Head(all)>>)
         \o violationsOf(Tail(all), normalized)

disallowedDiffPaths(d, allowed) ==
    SortPaths(violationsOf(d.Created \o d.Modified \o d.Deleted, normalizeAllowed(allowed)))

\* ParseAllowedWritePaths: <<entries, error>> from the comma-separated entries
ParseAllowedWritePaths(n) ==
    LET raw == n.allowed_write_paths
        bad == {i \in 1..Len(raw) :
                  \/ TrimSpace(raw[i]) = <<>>
                  \/ HasPrefix(TrimSpace(raw[i]), <<"/">>)
                  \/ \E k \in 1..(Len(raw[i]) - 1) : raw[i][k] = "." /\ raw[i][k + 1] = "."}
    IN IF bad # {} THEN <<(<<>>), TRUE>>
       ELSE <<[i \in 1..Len(raw) |-> TrimSpace(raw[i])], FALSE>>

----------------------------------------------------------------------------
(* Graph model: nodes, edges and the derived node kinds *)

\* a node declaration with every attribute at its default
NodeDefaults ==
    [shape |-> "box", type |-> "", max_retries |-> 0, allow_partial |-> FALSE,
     allowed_write_paths |-> <<>>, requires_tool_success |-> FALSE,
     required_tool_node |-> "", outcome_sequence |-> <<>>,
     test_outcome |-> "success", tool_command |-> <<>>]

Edge(from, to, cond, w) == [From |-> from, To |-> to, condition |-> cond, weight |-> w]

NodeIds(g) == DOMAIN g.Nodes

isExit_idOnly(g, id) == id \in NodeIds(g) /\ (id = "exit" \/ id = "end")

isExit(g, id) ==
    /\ id \in NodeIds(g)
    /\ (g.Nodes[id].shape = "Msquare" \/ id = "exit" \/ id = "end")

isStart(g, id) == g.Nodes[id].shape = "Mdiamond" \/ id = "start"

\* findStartNode: the first node of the map iteration that is a start node
findStartNode(g) == CHOOSE id \in NodeIds(g) : isStart(g, id)

resolveHandler(node) ==
    LET typ == IF node.type # "" THEN node.type
               ELSE CASE node.shape = "Mdiamond" -> "start"
                      [] node.shape = "Msquare" -> "exit"
                      [] node.shape = "parallelogram" -> "tool"
                      [] OTHER -> "codergen"
    IN IF typ \in {"start", "exit", "tool", "verification"} THEN typ ELSE "codergen"

isExecutableNode(node) ==
    IF node.type = "" THEN node.shape \in {"box", "parallelogram"}
    ELSE node.type \in {"codergen", "tool"}

isCodergenNode(node) ==
    IF node.type = "" THEN node.shape = "box" ELSE node.type = "codergen"

validateUnsupportedHandler(shape, typ) ==
    \/ shape \in {"hexagon", "diamond", "component", "tripleoctagon", "house"}
    \/ typ \in {"wait.human", "conditional", "parallel", "parallel.fan_in", "stack.manager_loop"}
    \/ shape \notin {"Mdiamond", "Msquare", "box", "parallelogram", ""}
    \/ typ \notin {"", "start", "exit", "codergen", "tool"}

\* a search that takes every node for seen
reachableFrom_everything(g, S) == S \cup NodeIds(g)

RECURSIVE reachableFrom(_, _)
\* the breadth-first search of ValidateGraph: the ids seen from the set S
reachableFrom(g, S) ==
    LET T == S \cup {g.Edges[i].To : i \in {j \in 1..Len(g.Edges) : g.Edges[j].From \in S}}
    IN IF T = S THEN S ELSE reachableFrom(g, T)

\* ValidateGraph: the set of ERROR diagnostics
ValidateGraph(g) ==
    LET E == 1..Len(g.Edges)
        starts == {id \in NodeIds(g) : isStart(g, id)}
        exits == {id \in NodeIds(g) : g.Nodes[id].shape = "Msquare" \/ id = "exit" \/ id = "end"}
    IN {<<"edge target missing", g.Edges[i].To>> : i \in {j \in E : g.Edges[j].To \notin NodeIds(g)}}
       \cup {<<"unsupported condition", g.Edges[i].condition>> :
               i \in {j \in E : g.Edges[j].condition \notin
                        {"", "outcome=success", "outcome=fail", "outcome=retry",
                         "outcome=partial_success"}}}
       \cup {<<"unsupported handler", id>> :
               id \in {n \in NodeIds(g) : validateUnsupportedHandler(g.Nodes[n].shape, g.Nodes[n].type)}}
       \cup {<<"allowed_write_paths", id>> :
               id \in {n \in NodeIds(g) : ParseAllowedWritePaths(g.Nodes[n])[2]}}
       \cup (IF Cardinality(starts) # 1 THEN {<<"must have exactly one start node", "">>} ELSE {})
       \cup (IF exits = {} THEN {<<"must have at least one exit node", "">>} ELSE {})
       \cup (IF Cardinality(starts) = 1
                /\ \E i \in E : g.Edges[i].To \in starts
             THEN {<<"start node cannot have incoming edges", "">>} ELSE {})
       \cup {<<"exit node has outgoing edges", id>> :
               id \in {n \in exits : \E i \in E : g.Edges[i].From = n}}
       \cup (IF Cardinality(starts) = 1
             THEN {<<"unreachable node", id>> : id \in NodeIds(g) \ reachableFrom(g, starts)}
             ELSE {})

\* a test that finds no error in any list of diagnostics
HasErrors_never(diags) == FALSE

HasErrors(diags) == diags # {}

----------------------------------------------------------------------------
(* Context values, maps and their JSON encoding *)

\* a Go value of dynamic type t; p carries the path list of a failure reason
VStr(x) == [t |-> "string", s |-> x, n |-> 0, p |-> <<>>]
VInt(i) == [t |-> "int", s |-> "", n |-> i, p |-> <<>>]
VFloat(i) == [t |-> "float64", s |-> "", n |-> i, p |-> <<>>]
VMap(x) == [t |-> "map", s |-> x, n |-> 0, p |-> <<>>]

EmptyMap == [k \in {} |-> VStr("")]
Put(m, k, v) == [x \in DOMAIN m \cup {k} |-> IF x = k THEN v ELSE m[x]]
Merge(m, u) == [x \in DOMAIN m \cup DOMAIN u |-> IF x \in DOMAIN u THEN u[x] ELSE m[x]]

\* json.Marshal of one value: int and float64 are both written as a number
jsonMarshalValue(v) ==
    IF v.t \in {"int", "float64"} THEN [v EXCEPT !.t = "number"]
    ELSE IF v.t = "map" THEN [v EXCEPT !.t = "object"]
    ELSE v

\* json.Unmarshal into map[string]any: every number becomes a float64
jsonUnmarshalValue(j) ==
    IF j.t = "number" THEN [j EXCEPT !.t = "float64"]
    ELSE IF j.t = "object" THEN [j EXCEPT !.t = "map"]
    ELSE j

jsonMarshal(m) == [k \in DOMAIN m |-> jsonMarshalValue(m[k])]
jsonUnmarshal(j) == [k \in DOMAIN j |-> jsonUnmarshalValue(j[k])]

RetryKey(id) == "internal.retry_count." \o id

----------------------------------------------------------------------------
(* Outcome records *)

Reason(msg) == [msg |-> msg, paths |-> <<>>]
NoReason == Reason("")
ReasonValue(r) == [t |-> "string", s |-> r.msg, n |-> 0, p |-> r.paths]

\* the zero value Outcome{} after executeNode filled in ContextUpdates
ZeroOutcome == [Outcome |-> "", FailureReason |-> NoReason, ContextUpdates |-> EmptyMap]
MkOutcome(tag, reason, updates) ==
    [Outcome |-> tag, FailureReason |-> reason, ContextUpdates |-> updates]

----------------------------------------------------------------------------
(* Tool command static filter *)

RECURSIVE Fields(_, _)
\* strings.Fields: the maximal runs of non-space characters (cur is the open run)
Fields(cmd, cur) ==
    IF cmd = <<>> THEN (IF cur = <<>> THEN <<>> ELSE <<cur>>)
    ELSE IF IsSpace(Head(cmd))
         THEN (IF cur = <<>> THEN <<>> ELSE <<cur>>) \o Fields(Tail(cmd), <<>>)
         ELSE Fields(Tail(cmd), Append(cur, Head(cmd)))

RECURSIVE TrimQuotesLeft(_)
TrimQuotesLeft(s) ==
    IF s # <<>> /\ Head(s) \in {"'", "\""} THEN TrimQuotesLeft(Tail(s)) ELSE s
RECURSIVE TrimQuotesRight(_)
TrimQuotesRight(s) ==
    IF s # <<>> /\ Last(s) \in {"'", "\""} THEN TrimQuotesRight(SubSeq(s, 1, Len(s) - 1)) ELSE s
\* strings.Trim(t, "'\"")
TrimQuotes(s) == TrimQuotesRight(TrimQuotesLeft(s))

Contains(s, ch) == \E i \in 1..Len(s) : s[i] = ch

isPathTokenBoundary(b) == b \in {"/", " ", "\t", "\n", "\r", ";", "&", "|", "(", ")", "'", "\""}

containsParentSegmentToken(cmd) ==
    \E i \in 1..(Len(cmd) - 1) :
        /\ cmd[i] = "." /\ cmd[i + 1] = "."
        /\ (i = 1 \/ isPathTokenBoundary(cmd[i - 1]))
        /\ (i + 2 > Len(cmd) \/ isPathTokenBoundary(cmd[i + 2]))

\* validateToolCommand: the error message, "" when the command is accepted
validateToolCommand(cmd) ==
    IF Contains(cmd, "~") THEN "tool_command rejected by guardrail: contains ~"
    ELSE IF containsParentSegmentToken(cmd) THEN "tool_command rejected by guardrail: contains .."
    ELSE IF \E i \in 1..Len(Fields(cmd, <<>>)) :
                HasPrefix(TrimQuotes(Fields(cmd, <<>>)[i]), <<"/">>)
         THEN "tool_command rejected by guardrail: contains absolute path"
         ELSE ""

\* filepath.Clean on the relative script paths of the model: a leading "./" is dropped
CleanPath(t) == IF HasPrefix(t, <<".", "/">>) THEN SubSeq(t, 3, Len(t)) ELSE t

RECURSIVE scriptPathsOf(_)
scriptPathsOf(tokens) ==
    IF tokens = <<>> THEN <<>>
    ELSE LET t == TrimQuotes(Head(tokens))
         IN (IF t = <<>> \/ HasPrefix(t, <<"-">>) \/ Contains(t, "=") THEN <<>>
             ELSE IF HasSuffix(t, <<".", "s", "h">>) THEN <<CleanPath(t)>>
             ELSE <<>>) \o scriptPathsOf(Tail(tokens))

extractToolScriptPaths(cmd) == scriptPathsOf(Fields(cmd, <<>>))

----------------------------------------------------------------------------
(* Handlers *)

\* outcomeFromTestAttrs: the deterministic fake backend
outcomeFromTestAttrs(node, id, ctx) ==
    LET seq == node.outcome_sequence
        idx == IF RetryKey(id) \in DOMAIN ctx /\ ctx[RetryKey(id)].t = "int"
               THEN ctx[RetryKey(id)].n ELSE 0
    IN IF Len(seq) > 0
       THEN (IF idx < Len(seq) THEN seq[idx + 1] ELSE seq[Len(seq)])
       ELSE (IF node.test_outcome = "" THEN "success" ELSE node.test_outcome)

\* the workspaces a subprocess can leave behind: at most MaxWrites of the paths
\* in touch are created, modified or deleted
Effects(ws, touch) ==
    {w \in [Paths -> 0..2] :
        LET D == {p \in Paths : w[p] # ws[p]}
        IN /\ D \subseteq touch
           /\ Cardinality(D) <= MaxWrites
           /\ \A p \in D : ws[p] = 0 => w[p] = 1
           /\ ~(w[PS] # 0 /\ w[PSX] # 0)}

\* what Execute returns, the workspace it leaves and whether it started a subprocess
HandlerOk(o, w) == [err |-> "", out |-> o, ws |-> w, sub |-> FALSE]
HandlerErr(msg, w) == [err |-> msg, out |-> ZeroOutcome, ws |-> w, sub |-> FALSE]
HandlerRan(o, w) == [err |-> "", out |-> o, ws |-> w, sub |-> TRUE]

startHandlerExecute(ws) == {HandlerOk(MkOutcome("success", NoReason, EmptyMap), ws)}

exitReason(code) == IF code = 0 THEN NoReason ELSE Reason("tool_exit_code_1")

rejectResult_abort(msg, ws) == HandlerErr(msg, ws)

\* the return for a command the static filter rejects: an Outcome, a nil error
rejectResult(msg, ws) == HandlerOk(MkOutcome("fail", Reason(msg), EmptyMap), ws)

toolHandlerExecute(sc, node, ws) ==
    IF TrimSpace(node.tool_command) = <<>> THEN {HandlerErr("tool_command required", ws)}
    ELSE IF validateToolCommand(TrimSpace(node.tool_command)) # ""
    THEN {rejectResult(validateToolCommand(TrimSpace(node.tool_command)), ws)}
    ELSE {HandlerRan(MkOutcome(IF code = 0 THEN "success" ELSE "fail", exitReason(code), EmptyMap), w) :
            code \in {0, 1}, w \in Effects(ws, sc.touch)}
         \cup {HandlerErr("exec: start failed", ws)}

\* verificationHandler.Execute, the branch for a context without a plan
verificationHandlerExecute(ctx, ws) ==
    IF "verification.plan" \notin DOMAIN ctx
    THEN {HandlerOk(MkOutcome("fail", Reason("verification plan missing in context key"), EmptyMap), ws)}
    ELSE {HandlerOk(MkOutcome("fail", Reason("verification.allowed_commands is required"), EmptyMap), ws)}

codergenHandlerExecute(sc, node, id, ctx, ws) ==
    IF sc.backend = "fake"
    THEN {HandlerOk(MkOutcome(outcomeFromTestAttrs(node, id, ctx), NoReason, EmptyMap), ws)}
    ELSE IF sc.backend = "codex"
    THEN {HandlerRan(MkOutcome(x[1], Reason(x[2]), x[3]), w) :
            x \in sc.agentOutcomes \X sc.agentReasons \X sc.agentUpdates,
            w \in Effects(ws, sc.touch)}
         \cup {HandlerErr("codex exec failed", ws)}
    ELSE {HandlerOk(MkOutcome("success", NoReason, EmptyMap), ws)}

\* h.Execute for the handler resolveHandler picks
HandlerExecute(sc, node, id, ctx, ws) ==
    CASE resolveHandler(node) \in {"start", "exit"} -> startHandlerExecute(ws)
      [] resolveHandler(node) = "tool" -> toolHandlerExecute(sc, node, ws)
      [] resolveHandler(node) = "verification" -> verificationHandlerExecute(ctx, ws)
      [] OTHER -> codergenHandlerExecute(sc, node, id, ctx, ws)

unfixableFailureSourceReason(g, node, ctx) ==
    /\ isCodergenNode(node)
    /\ "last_failure.node_id" \in DOMAIN ctx
    /\ ctx["last_failure.node_id"].t = "string"
    /\ ctx["last_failure.node_id"].s # ""
    /\ ctx["last_failure.node_id"].s \in NodeIds(g)
    /\ LET failedNode == g.Nodes[ctx["last_failure.node_id"].s]
           sourcePaths == extractToolScriptPaths(TrimSpace(failedNode.tool_command))
           parsed == ParseAllowedWritePaths(node)
       IN /\ failedNode.type = "tool"
          /\ sourcePaths # <<>>
          /\ \/ parsed[2]
             \/ /\ Len(parsed[1]) > 0
                /\ \E i \in 1..Len(sourcePaths) :
                     ~pathAllowed(sourcePaths[i], normalizeAllowed(parsed[1]))

captureFailureFeedback_skip(ctx, node, id, o) == ctx

captureFailureFeedback(ctx, node, id, o) ==
    Merge(ctx, [k \in {"last_failure.node_id", "last_failure.node_type", "last_failure.reason",
                       "last_failure.at", "last_failure.artifacts", "last_failure.summary"} |->
                 CASE k = "last_failure.node_id" -> VStr(id)
                   [] k = "last_failure.node_type" -> VStr(node.type)
                   [] k = "last_failure.reason" -> ReasonValue(o.FailureReason)
                   [] k = "last_failure.at" -> VStr("time.Now")
                   [] k = "last_failure.artifacts" -> VMap(id)
                   [] OTHER -> VStr("failed_node=" \o id)])

----------------------------------------------------------------------------
(* Tool harness: toolHandler.Execute applied to arbitrary commands *)

\* the characters of the commands: a name, the path characters, white space,
\* a redirection, an assignment, the home mark and a quote
CmdAlphabet == {"x", ".", "/", " ", ">", "=", "~", "'"}

NoResult == HandlerErr("", EmptyWorkspace)

InitFilter == fCmd = <<>> /\ fResult = NoResult /\ fPc = "input"

FilterOff == fCmd = <<>> /\ fResult = NoResult /\ fPc = "off"

\* one more character of the tool_command attribute
TypeChar ==
    /\ fPc = "input"
    /\ Len(fCmd) < MaxCmdLen
    /\ \E c \in CmdAlphabet : fCmd' = Append(fCmd, c)
    /\ UNCHANGED <<fResult, fPc>>

\* toolHandler.Execute on a parallelogram node with that command
RunTool ==
    /\ fPc = "input"
    /\ fResult' \in toolHandlerExecute([touch |-> {}],
                                       [NodeDefaults EXCEPT !.shape = "parallelogram",
                                                            !.tool_command = fCmd],
                                       EmptyWorkspace)
    /\ fPc' = "ran"
    /\ UNCHANGED fCmd

----------------------------------------------------------------------------
(* Read scoping of the agent adapter: hideWorkspacePaths, restoreWorkspacePaths *)

\* Paths below the workspace are sequences of segments, as filepath.Join
\* leaves them ("a/x/" and "a/x" are both <<"a", "x">>).  RelPathOrder lists
\* them in the order of sort.Strings: "a" < "a/x" < "f" < "f/y".
RelPathOrder == << <<"a">>, <<"a", "x">>, <<"f">>, <<"f", "y">> >>
RelPaths == SeqToSet(RelPathOrder)
TopNames == {p \in RelPaths : Len(p) = 1}
RelRank(p) == CHOOSE i \in 1..Len(RelPathOrder) : RelPathOrder[i] = p

\* how codexAgent.Run can leave after the deferred restore is registered
ExitPaths == {"success", "exit_nonzero", "timeout", "no_binary", "bad_response", "panic"}
\* the exit paths on which the agent process never ran
NeverRan == {"no_binary"}

\* sort.Strings on a block list without duplicates
SortRel(S) == [i \in 1..Cardinality(S) |->
                 CHOOSE p \in S : Cardinality({q \in S : RelRank(q) < RelRank(p)}) = i - 1]

\* a directory tree is a set of entries; "by" tells who created the entry
Entry(p, k, by) == [p |-> p, k |-> k, by |-> by]
Exists(t, p) == \E n \in t : n.p = p
EntryAt(t, p) == CHOOSE n \in t : n.p = p
IsUnder(p, q) == Len(q) <= Len(p) /\ SubSeq(p, 1, Len(q)) = q
Dir(p) == SubSeq(p, 1, Len(p) - 1)
Ancestors(p) == {SubSeq(p, 1, i) : i \in 1..(Len(p) - 1)}
IsFile(t, p) == Exists(t, p) /\ EntryAt(t, p).k = "file"

\* os.Stat
statPath(t, p) ==
    IF \E q \in Ancestors(p) : IsFile(t, q) THEN "ENOTDIR"
    ELSE IF Exists(t, p) THEN "ok"
    ELSE "ENOENT"

\* os.MkdirAll: the error, and the tree it leaves when there is none
mkdirAllErr(t, p) == IF \E q \in Ancestors(p) \cup {p} : IsFile(t, q) THEN "ENOTDIR" ELSE ""
mkdirAll(t, p, by) ==
    t \cup {Entry(q, "dir", by) : q \in {r \in Ancestors(p) \cup {p} : r # <<>> /\ ~Exists(t, r)}}

\* os.Rename of the entry at p with everything below it, from tree src to tree dst
Subtree(t, p) == {n \in t : IsUnder(n.p, p)}
renameErr(dst, p) == IF Exists(dst, p) /\ Subtree(dst, p) # {EntryAt(dst, p)} THEN "ENOTEMPTY" ELSE ""

\* the state the two functions work on: the workspace, the hidden directories
\* of the two hideWorkspacePaths calls, what has been moved away and moved
\* back so far, in that order, and the number of restoreWorkspacePaths calls
\* that had something to restore
FsState(ws, base) ==
    [ws |-> ws, base |-> base, moved |-> <<>>, restored |-> <<>>, calls |-> 0, err |-> ""]

hiddenPath(orig, b) == [original |-> orig, base |-> b]

RECURSIVE JoinPath(_)
\* filepath.Join of the segments
JoinPath(p) == IF Len(p) = 1 THEN p[1] ELSE p[1] \o "/" \o JoinPath(Tail(p))

RecreatedErr(p) == "blocked path was recreated during execution: " \o JoinPath(p)

\* one round of the loop of restoreWorkspacePaths, which moves a path back
\* whatever is at its original location
restoreOne_overwrite(st, h) ==
    [st EXCEPT !.ws = (mkdirAll(st.ws, Dir(h.original), "mkdir") \ Subtree(st.ws, h.original))
                        \cup Subtree(st.base[h.base], h.original),
               !.base[h.base] = st.base[h.base] \ Subtree(st.base[h.base], h.original),
               !.restored = Append(st.restored, h.original)]

\* one round of the loop of restoreWorkspacePaths
restoreOne(st, h) ==
    IF mkdirAllErr(st.ws, Dir(h.original)) # ""
      THEN [st EXCEPT !.err = mkdirAllErr(st.ws, Dir(h.original))]
    ELSE LET made == mkdirAll(st.ws, Dir(h.original), "mkdir")
         IN IF statPath(made, h.original) = "ok"
              THEN [st EXCEPT !.ws = made, !.err = RecreatedErr(h.original)]
            ELSE IF statPath(made, h.original) # "ENOENT"
              THEN [st EXCEPT !.ws = made, !.err = statPath(made, h.original)]
            ELSE [st EXCEPT !.ws = made \cup Subtree(st.base[h.base], h.original),
                            !.base[h.base] = st.base[h.base] \ Subtree(st.base[h.base], h.original),
                            !.restored = Append(st.restored, h.original)]

RECURSIVE restoreFrom(_, _, _)
restoreFrom(st, hidden, i) ==
    IF i < 1 THEN st
    ELSE LET r == restoreOne(st, hidden[i])
         IN IF r.err # "" THEN r ELSE restoreFrom(r, hidden, i - 1)

RECURSIVE restoreUpTo(_, _, _)
restoreUpTo(st, hidden, i) ==
    IF i > Len(hidden) THEN st
    ELSE LET r == restoreOne(st, hidden[i])
         IN IF r.err # "" THEN r ELSE restoreUpTo(r, hidden, i + 1)

\* restoreWorkspacePaths with the loop running from the first entry to the last
restoreWorkspacePaths_forward(st, hidden) ==
    IF hidden = <<>> THEN [st EXCEPT !.err = ""]
    ELSE restoreUpTo([st EXCEPT !.err = "", !.calls = st.calls + 1], hidden, 1)

\* restoreWorkspacePaths: the loop runs from the last entry to the first
restoreWorkspacePaths(st, hidden) ==
    IF hidden = <<>> THEN [st EXCEPT !.err = ""]
    ELSE restoreFrom([st EXCEPT !.err = "", !.calls = st.calls + 1], hidden, Len(hidden))

RECURSIVE hideFrom(_, _, _, _, _, _)
\* the loop of hideWorkspacePaths over the sorted paths; failAt is the number
\* of the os.Rename call that the operating system refuses (0: none)
hideFrom(st, hidden, b, paths, i, failAt) ==
    IF i > Len(paths) THEN [st |-> st, hidden |-> hidden]
    ELSE LET rel == paths[i]
             s == statPath(st.ws, rel)
         IN IF s = "ENOENT" THEN hideFrom(st, hidden, b, paths, i + 1, failAt)
            ELSE IF s # "ok" THEN [st |-> [st EXCEPT !.err = s], hidden |-> <<>>]
            ELSE IF mkdirAllErr(st.base[b], Dir(rel)) # ""
              THEN [st |-> [st EXCEPT !.err = mkdirAllErr(st.base[b], Dir(rel))], hidden |-> <<>>]
            ELSE LET made == [st EXCEPT !.base[b] = mkdirAll(st.base[b], Dir(rel), "mkdir")]
                     e == IF Len(st.moved) + 1 = failAt THEN "EXDEV"
                          ELSE renameErr(made.base[b], rel)
                 IN IF e # ""
                      THEN [st |-> [restoreWorkspacePaths(made, hidden) EXCEPT !.err = e],
                            hidden |-> <<>>]
                    ELSE hideFrom([made EXCEPT !.ws = made.ws \ Subtree(made.ws, rel),
                                               !.base[b] = made.base[b] \cup Subtree(made.ws, rel),
                                               !.moved = Append(made.moved, rel)],
                                  Append(hidden, hiddenPath(rel, b)), b, paths, i + 1, failAt)

\* hideWorkspacePaths(workspace, nodeDir, blocked), b being the number of the
\* hidden directory os.MkdirTemp makes for this call
hideWorkspacePaths(st, b, blocked, failAt) ==
    IF blocked = {} THEN [st |-> [st EXCEPT !.err = ""], hidden |-> <<>>]
    ELSE hideFrom([st EXCEPT !.err = ""], <<>>, b, SortRel(blocked), 1, failAt)

\* strictReadScopeBlockedPaths: the top-level entries outside the kept roots
strictReadScopeBlockedPaths(ws, keepRoots) ==
    IF keepRoots = {} THEN {}
    ELSE {p \in TopNames : Exists(ws, p) /\ p \notin keepRoots}

\* the trees of the harness: each top-level name is missing, a file, a
\* directory, or a directory with one file in it
WellFormedTree(t) ==
    /\ \A n \in t : \A m \in t : n.p = m.p => n = m
    /\ \A n \in t : \A q \in Ancestors(n.p) : Exists(t, q) /\ ~IsFile(t, q)
    /\ \A n \in t : Len(n.p) > 1 => n.k = "file"

NoTree == {}
NoBases == [b \in 1..2 |-> NoTree]
NoInput == [ws |-> NoTree, blocked |-> {}, strict |-> FALSE, keep |-> {}, failAt |-> 0]
NoLog == [exit |-> "", recreated |-> {}, restoreErr |-> ""]

HideOff ==
    /\ hIn = NoInput /\ hFs = FsState(NoTree, NoBases)
    /\ hHidden = <<>> /\ hLog = NoLog /\ hPc = "off"

\* any workspace, any validated block list, either setting of
\* codex.strict_read_scope with any kept roots, any refused rename
InitHide ==
    /\ \E t \in {w \in SUBSET {Entry(q, k, "user") : q \in RelPaths, k \in {"file", "dir"}} :
                    WellFormedTree(w)} :
       \E blocked \in {S \in SUBSET RelPaths : Cardinality(S) <= MaxBlocked} :
       \E strict \in BOOLEAN : \E keep \in SUBSET TopNames : \E failAt \in 0..MaxFailAt :
          /\ (~strict => keep = {})
          /\ hIn = [ws |-> t, blocked |-> blocked, strict |-> strict, keep |-> keep,
                    failAt |-> failAt]
          /\ hFs = FsState(t, NoBases)
    /\ hHidden = <<>> /\ hLog = NoLog /\ hPc = "start"

\* codexAgent.Run: the first hideWorkspacePaths call and its error return
HideBlocked ==
    /\ hPc = "start"
    /\ LET r == hideWorkspacePaths(hFs, 1, hIn.blocked, hIn.failAt)
       IN /\ hFs' = r.st
          /\ hHidden' = r.hidden
          /\ hPc' = IF r.st.err # "" THEN "returned" ELSE "scope"
    /\ UNCHANGED <<hIn, hLog>>

\* codexAgent.Run: the strict-read-scope block, up to the registration of the
\* deferred restore
HideScope ==
    /\ hPc = "scope"
    /\ IF ~hIn.strict
         THEN hPc' = "agent" /\ UNCHANGED <<hFs, hHidden, hLog>>
       ELSE LET scopeBlocked == strictReadScopeBlockedPaths(hFs.ws, hIn.keep)
                r == hideWorkspacePaths(hFs, 2, scopeBlocked, hIn.failAt)
            IN IF r.st.err # ""
                 THEN LET back == restoreWorkspacePaths(r.st, hHidden)
                      IN /\ hFs' = [back EXCEPT !.err = r.st.err]
                         /\ hLog' = [hLog EXCEPT !.restoreErr = back.err]
                         /\ hHidden' = hHidden
                         /\ hPc' = "returned"
               ELSE /\ hFs' = r.st
                    /\ hHidden' = hHidden \o r.hidden
                    /\ hPc' = "agent"
                    /\ UNCHANGED hLog
    /\ UNCHANGED hIn

HiddenOriginals == {hHidden[i].original : i \in 1..Len(hHidden)}

\* what the agent leaves at a hidden path it creates again
Recreate(ws, R) ==
    LET dirs == UNION {Ancestors(p) : p \in R}
    IN ws \cup {Entry(q, "dir", "agent") : q \in {r \in dirs : ~Exists(ws, r)}}
          \cup {Entry(p, "file", "agent") : p \in {r \in R : r \notin dirs}}

\* codexAgent.Run from the deferred restore to the return statement or the
\* panic: the agent process, if it ran, may create hidden paths again
RunAgent ==
    /\ hPc = "agent"
    /\ \E x \in ExitPaths :
       \E R \in SUBSET HiddenOriginals :
          /\ (x \in NeverRan => R = {})
          /\ \A p \in R : \A q \in Ancestors(p) : ~IsFile(hFs.ws, q)
          /\ hFs' = [hFs EXCEPT !.ws = Recreate(hFs.ws, R)]
          /\ hLog' = [hLog EXCEPT !.exit = x,
                                   !.recreated = {p \in HiddenOriginals :
                                                    Exists(Recreate(hFs.ws, R), p)}]
    /\ hPc' = "exiting"
    /\ UNCHANGED <<hIn, hHidden>>

\* the deferred function of codexAgent.Run
Restore ==
    /\ hPc = "exiting"
    /\ LET back == restoreWorkspacePaths(hFs, hHidden)
       IN /\ hFs' = [back EXCEPT !.err = ""]
          /\ hLog' = [hLog EXCEPT !.restoreErr = back.err]
    /\ hPc' = "returned"
    /\ UNCHANGED <<hIn, hHidden>>

----------------------------------------------------------------------------
(* Verification harness: the inputs and results of verificationHandler.Execute *)

NoPlan == [hasPlan |-> FALSE, files |-> <<>>, commands |-> <<>>]
NoVerifyInput == [plan |-> NoPlan, allowed |-> <<>>, present |-> {}, exits |-> <<>>, pieces |-> 0]
\* nothing returned, nothing run, no file written
NoVerifyResult ==
    [err |-> "", outcome |-> "", reason |-> "", planFile |-> FALSE,
     ran |-> <<>>, resultsFile |-> FALSE, results |-> <<>>]

VerifyOff == vIn = NoVerifyInput /\ vOut = NoVerifyResult /\ vPc = "off"

\* the graph harness at rest
NoGraph == [Nodes |-> <<>>, Edges |-> <<>>]
NoGraphResult == [diags |-> {}, node |-> "", handler |-> "", outcome |-> "", prompt |-> FALSE,
                  guarded |-> FALSE, unfixableChecked |-> FALSE]
\* the two streams of a subprocess
Streams == {"stdout", "stderr"}

NoPipes == [s \in Streams |-> [buf |-> 0, closed |-> FALSE]]
NoReaders == [s \in Streams |-> [state |-> "off", got |-> 0]]
NoBeat == [state |-> "off", tick |-> FALSE, done |-> FALSE, emitted |-> 0, late |-> 0]

PipesOff ==
    /\ xIn = [mode |-> "off", script |-> <<>>]
    /\ xProc = [todo |-> <<>>, exited |-> FALSE]
    /\ xPipe = NoPipes /\ xRead = NoReaders
    /\ xMain = [pc |-> "off", result |-> ""]
    /\ xBeat = NoBeat

GraphOff == gIn = NoGraph /\ gOut = NoGraphResult /\ gPc = "off"

----------------------------------------------------------------------------
(* Pipelines and environments of the model *)

StartN == [NodeDefaults EXCEPT !.shape = "Mdiamond"]
ExitN == [NodeDefaults EXCEPT !.shape = "Msquare"]
ToolN == [NodeDefaults EXCEPT !.shape = "parallelogram", !.tool_command = <<"x">>]
Uncond(from, to) == Edge(from, to, "", 0)

\* a pipeline with its environment: the agent backend, the outcomes,
\* failure reasons and context updates an external agent may return, the workspace paths a
\* subprocess may touch, the source directory copied into the workspace, and
\* whether process deaths are explored for it (they are for the pipelines
\* whose handlers write nothing)
ScenarioDefaults ==
    [name |-> "linear", backend |-> "fake", agentOutcomes |-> {}, agentReasons |-> {""},
     agentUpdates |-> {EmptyMap},
     touch |-> {}, mayCrash |-> TRUE, src |-> [EmptyWorkspace EXCEPT ![PA] = 1], goal |-> "",
     Nodes |-> ("start" :> StartN) @@ ("a" :> NodeDefaults) @@ ("exit" :> ExitN),
     Edges |-> <<Uncond("start", "a"), Uncond("a", "exit")>>]

\* start -> a -> exit, all default (TestExecLinearArtifacts)
ScLinear == ScenarioDefaults

\* TestRetryHonored
ScRetry ==
    [ScenarioDefaults EXCEPT !.name = "retry",
       !.Nodes = [@ EXCEPT !["a"] = [NodeDefaults EXCEPT !.max_retries = 2,
                      !.outcome_sequence = <<"retry", "retry", "success">>]]]

\* TestRetryExhaustionFails
ScExhaust ==
    [ScenarioDefaults EXCEPT !.name = "exhaust",
       !.Nodes = [@ EXCEPT !["a"] = [NodeDefaults EXCEPT !.max_retries = 1, !.test_outcome = "retry"]],
       !.Edges = <<Uncond("start", "a"), Edge("a", "exit", "outcome=success", 0)>>]

\* TestRetryAllowPartial
ScPartial ==
    [ScenarioDefaults EXCEPT !.name = "partial",
       !.Nodes = [@ EXCEPT !["a"] = [NodeDefaults EXCEPT !.max_retries = 1, !.test_outcome = "retry",
                                       !.allow_partial = TRUE]],
       !.Edges = <<Uncond("start", "a"), Edge("a", "exit", "outcome=partial_success", 0)>>]

\* TestGuardAllowlistViolationFails: a tool node with a write allowlist
ScGuardTool ==
    [ScenarioDefaults EXCEPT !.name = "guard_tool", !.backend = "", !.mayCrash = FALSE,
       !.touch = Paths,
       !.Nodes = ("start" :> StartN) @@ ("exit" :> ExitN)
                 @@ ("t" :> [ToolN EXCEPT !.allowed_write_paths = <<PA, <<"s", "/">> >>]),
       !.Edges = <<Uncond("start", "t"), Uncond("t", "exit")>>]

\* an external agent with retries, a write allowlist and every outcome
ScGuardAgent ==
    [ScenarioDefaults EXCEPT !.name = "guard_agent", !.backend = "codex", !.mayCrash = FALSE,
       !.agentOutcomes = {"success", "retry", "fail"}, !.agentReasons = {"", "agent_reason"},
       !.touch = {PSX, PSx},
       !.Nodes = [@ EXCEPT !["a"] = [NodeDefaults EXCEPT !.max_retries = 1,
                                       !.allowed_write_paths = <<PA, <<"s", "/">> >>]]]

\* the same agent with allow_partial and no allowlist
ScAgentPartial ==
    [ScenarioDefaults EXCEPT !.name = "agent_partial", !.backend = "codex", !.mayCrash = FALSE,
       !.agentOutcomes = Tags, !.agentReasons = {"", "agent_reason"},
       !.Nodes = [@ EXCEPT !["a"] = [NodeDefaults EXCEPT !.max_retries = 1, !.allow_partial = TRUE]]]

\* a fix loop: b fails, fix runs, b is visited again
ScLoop ==
    [ScenarioDefaults EXCEPT !.name = "loop",
       !.Nodes = ("start" :> StartN) @@ ("exit" :> ExitN) @@ ("fix" :> NodeDefaults)
                 @@ ("b" :> [NodeDefaults EXCEPT !.max_retries = 1,
                               !.outcome_sequence = <<"retry", "fail", "success">>]),
       !.Edges = <<Uncond("start", "b"), Edge("b", "fix", "outcome=fail", 0),
                   Edge("b", "exit", "outcome=success", 0), Uncond("fix", "b")>>]

\* a node that routes to itself on failure, run by an external agent
ScSelf ==
    [ScenarioDefaults EXCEPT !.name = "self", !.backend = "codex",
       !.agentOutcomes = {"success", "fail"},
       !.Edges = <<Uncond("start", "a"), Edge("a", "a", "outcome=fail", 0),
                   Edge("a", "exit", "outcome=success", 0)>>]

\* an external agent whose response may carry a context update for the key
\* last_failure.summary; a is visited again after it failed
ScUpdates ==
    [ScenarioDefaults EXCEPT !.name = "updates", !.backend = "codex", !.mayCrash = FALSE,
       !.agentOutcomes = {"success", "fail"},
       !.agentUpdates = {EmptyMap, Put(EmptyMap, "last_failure.summary", VStr(""))},
       !.Edges = <<Uncond("start", "a"), Edge("a", "a", "outcome=fail", 0),
                   Edge("a", "exit", "outcome=success", 0)>>]

\* a fix stage that may write only the file a, after two tool stages that run
\* the script x.sh: b is a tool node by its shape, t by its type attribute
ScUnfixable ==
    [ScenarioDefaults EXCEPT !.name = "unfixable",
       !.Nodes = ("start" :> StartN) @@ ("exit" :> ExitN)
                 @@ ("b" :> [ToolN EXCEPT !.tool_command = <<"x", ".", "s", "h">>])
                 @@ ("t" :> [ToolN EXCEPT !.type = "tool", !.tool_command = <<"x", ".", "s", "h">>])
                 @@ ("fix" :> [NodeDefaults EXCEPT !.allowed_write_paths = <<PA>>]),
       !.Edges = <<Uncond("start", "b"), Edge("b", "fix", "outcome=fail", 0),
                   Edge("b", "t", "outcome=success", 0), Edge("t", "fix", "outcome=fail", 0),
                   Edge("t", "exit", "outcome=success", 0), Uncond("fix", "exit")>>]

\* weights and two exits (TestExecWeightTieBreak, TestExecRoutingByOutcome)
ScRoute ==
    [ScenarioDefaults EXCEPT !.name = "route",
       !.Nodes = ("start" :> StartN) @@ ("exit" :> ExitN) @@ ("c" :> ExitN)
                 @@ ("a" :> [NodeDefaults EXCEPT !.test_outcome = "fail"])
                 @@ ("b" :> NodeDefaults),
       !.Edges = <<Uncond("start", "a"), Edge("a", "c", "outcome=success", 5),
                   Edge("a", "b", "", 1), Edge("a", "exit", "", 1), Edge("a", "exit", "", 0),
                   Uncond("b", "exit")>>]

\* outcome routing to two exits: a fails and leaves by its outcome=fail edge
ScOutcome ==
    [ScenarioDefaults EXCEPT !.name = "outcome",
       !.Nodes = ("start" :> StartN) @@ ("exit" :> ExitN) @@ ("c" :> ExitN)
                 @@ ("a" :> [NodeDefaults EXCEPT !.test_outcome = "fail"]),
       !.Edges = <<Uncond("start", "a"), Edge("a", "c", "outcome=fail", 0),
                   Edge("a", "exit", "outcome=success", 0)>>]

\* TestGuardEscapeHeuristics: the command of t names a parent directory and
\* routes on fail to a, whose command names an absolute path and has no fail edge
ScFilter ==
    [ScenarioDefaults EXCEPT !.name = "filter", !.backend = "",
       !.Nodes = ("start" :> StartN) @@ ("exit" :> ExitN)
                 @@ ("t" :> [ToolN EXCEPT !.tool_command = <<"x", " ", ".", ".", "/", "x">>])
                 @@ ("a" :> [ToolN EXCEPT !.tool_command = <<"/", "x">>]),
       !.Edges = <<Uncond("start", "t"), Edge("t", "a", "outcome=fail", 0),
                   Edge("t", "exit", "outcome=success", 0),
                   Edge("a", "exit", "outcome=success", 0)>>]

\* a pipeline the validator rejects: b is unreachable
ScInvalid ==
    [ScenarioDefaults EXCEPT !.name = "invalid",
       !.Nodes = ("start" :> StartN) @@ ("a" :> NodeDefaults) @@ ("b" :> NodeDefaults)
                 @@ ("exit" :> ExitN)]

\* a node whose test.outcome attribute is a word that is no outcome tag
ScOddOutcome ==
    [ScenarioDefaults EXCEPT !.name = "odd_outcome", !.mayCrash = FALSE,
       !.Nodes = [@ EXCEPT !["a"] = [NodeDefaults EXCEPT !.test_outcome = "done"]]]

\* a truth gate: the agent stage a requires the tool stage t, which runs
\* before it and may fail
ScToolGate ==
    [ScenarioDefaults EXCEPT !.name = "tool_gate", !.backend = "codex", !.mayCrash = FALSE,
       !.agentOutcomes = {"success", "partial_success"},
       !.Nodes = ("start" :> StartN) @@ ("exit" :> ExitN) @@ ("t" :> ToolN)
                 @@ ("a" :> [NodeDefaults EXCEPT !.requires_tool_success = TRUE,
                                                 !.required_tool_node = "t"]),
       !.Edges = <<Uncond("start", "t"), Uncond("t", "a"), Uncond("a", "exit")>>]

\* an edge for the outcome retry: a asks for a retry on every attempt
ScRetryEdge ==
    [ScenarioDefaults EXCEPT !.name = "retry_edge", !.mayCrash = FALSE,
       !.Nodes = ("start" :> StartN) @@ ("exit" :> ExitN) @@ ("c" :> ExitN)
                 @@ ("a" :> [NodeDefaults EXCEPT !.max_retries = 1, !.test_outcome = "retry"]),
       !.Edges = <<Uncond("start", "a"), Edge("a", "c", "outcome=retry", 1),
                   Edge("a", "exit", "outcome=fail", 0)>>]

\* an agent whose context_updates name the keys the engine sets itself
ScOwnedKeys ==
    [ScenarioDefaults EXCEPT !.name = "owned_keys", !.backend = "codex", !.mayCrash = FALSE,
       !.agentOutcomes = {"success"},
       !.agentUpdates = {EmptyMap,
                         Put(Put(EmptyMap, "outcome", VStr("fail")), "current_node", VStr("exit"))}]

\* a failure that is not fresh: the tool stage t runs the script x.sh, a plain
\* agent stage a follows its failure and succeeds, then comes the fix stage,
\* which may write only the file a
ScStaleFailure ==
    [ScenarioDefaults EXCEPT !.name = "stale_failure", !.mayCrash = FALSE,
       !.Nodes = ("start" :> StartN) @@ ("exit" :> ExitN) @@ ("a" :> NodeDefaults)
                 @@ ("t" :> [ToolN EXCEPT !.type = "tool", !.tool_command = <<"x", ".", "s", "h">>])
                 @@ ("fix" :> [NodeDefaults EXCEPT !.allowed_write_paths = <<PA>>]),
       !.Edges = <<Uncond("start", "t"), Edge("t", "a", "outcome=fail", 0),
                   Edge("t", "exit", "outcome=success", 0), Uncond("a", "fix"),
                   Uncond("fix", "exit")>>]

Scenarios == {ScLinear, ScRetry, ScExhaust, ScPartial, ScGuardTool, ScGuardAgent,
              ScAgentPartial, ScLoop, ScSelf, ScRoute, ScOutcome,
              ScFilter, ScUpdates, ScUnfixable, ScInvalid, ScOddOutcome, ScToolGate,
              ScRetryEdge, ScOwnedKeys, ScStaleFailure}

----------------------------------------------------------------------------
(* Run directories and the records written to them *)

RunIDs == {"r1", "r2"}
ZeroCounts == [id \in AllIds |-> 0]
NoCheckpoint == [exists |-> FALSE, LastCompletedNode |-> "", CompletedNodes |-> <<>>,
                 RetryCounts |-> ZeroCounts, Context |-> EmptyMap]
NoStatus == [exists |-> FALSE, Outcome |-> "", FailureReason |-> NoReason,
             ContextUpdates |-> EmptyMap]
NoCfg == [RunID |-> "", Resume |-> FALSE, stop |-> ""]
RetNone == [kind |-> "none", err |-> "", rid |-> "", resume |-> FALSE]

\* appendEvent, appendTrace, an artifact write, a handler invocation, a context mutation
Ev(t, n, x) == [f |-> "events", t |-> t, n |-> n, x |-> x, p |-> <<>>]
Tr(t, n, x) == [f |-> "trace", t |-> t, n |-> n, x |-> x, p |-> <<>>]
Fw(t, n, paths) == [f |-> "file", t |-> t, n |-> n, x |-> "", p |-> paths]
Hc(n) == [f |-> "call", t |-> "handler", n |-> n, x |-> "", p |-> <<>>]
Mem(t, n) == [f |-> "memory", t |-> t, n |-> n, x |-> "", p |-> <<>>]

RunDirExists(rid) == hist[rid] # <<>>
StagesStarted(rid) ==
    Cardinality({i \in 1..Len(hist[rid]) : hist[rid][i].f = "events" /\ hist[rid][i].t = "StageStarted"})

InitEngine ==
    /\ scenario \in Scenarios
    /\ pc = "idle" /\ cfg = NoCfg /\ current = "" /\ attempt = 0 /\ out = ZeroOutcome
    /\ Context = EmptyMap /\ RetryCount = ZeroCounts /\ Completed = {}
    /\ ret = RetNone
    /\ checkpoint = [r \in RunIDs |-> NoCheckpoint]
    /\ status = [r \in RunIDs |-> [id \in AllIds |-> NoStatus]]
    /\ workspace = [r \in RunIDs |-> EmptyWorkspace]
    /\ hist = [r \in RunIDs |-> <<>>]
    /\ calls = 0 /\ crashes = 0

RouteOff == rEdges = <<>> /\ rFrom = "a" /\ rOutcome = "success" /\ rResult = "" /\ rPc = "off"

ResetMemory ==
    /\ pc' = "idle" /\ cfg' = NoCfg /\ current' = "" /\ attempt' = 0 /\ out' = ZeroOutcome
    /\ Context' = EmptyMap /\ RetryCount' = ZeroCounts /\ Completed' = {}

\* executeFrom returned err ("" for nil): the tail of RunPipeline
ReturnFromExecute(h, err) ==
    /\ hist' = [hist EXCEPT ![cfg.RunID] =
                  h \o (IF err = ""
                        THEN <<Ev("PipelineCompleted", "", ""), Tr("PipelineCompleted", "", "")>>
                        ELSE <<Ev("PipelineFailed", "", err), Tr("PipelineFailed", "", err)>>)]
    /\ ret' = [kind |-> IF err = "" THEN "ok" ELSE "error", err |-> err,
               rid |-> cfg.RunID, resume |-> cfg.Resume]
    /\ ResetMemory

----------------------------------------------------------------------------
(* RunPipeline up to the call of executeFrom *)

resumeStart_rerunLast(g, last, outcome) == last

\* the start node of a resume: e.selectNext(cp.LastCompletedNode, status.Outcome)
resumeStart(g, last, outcome) == selectNext(g.Edges, last, outcome)

resumeCompleted_none(cp) == {}

\* the loop over cp.CompletedNodes that fills e.Completed
resumeCompleted(cp) == SeqToSet(cp.CompletedNodes)

RunPipeline(rid, resume, stop) ==
    /\ pc = "idle"
    /\ resume \/ ~RunDirExists(rid)
    /\ calls' = calls + 1
    /\ LET g == scenario
           cp == checkpoint[rid]
           last == cp.LastCompletedNode
           st == IF last \in AllIds THEN status[rid][last] ELSE NoStatus
           next == resumeStart(g, last, st.Outcome)
           h0 == hist[rid] \o <<Fw("manifest.json", "", <<>>),
                                Tr("SessionInitialized", "", IF resume THEN "resume" ELSE "fresh")>>
           h1 == IF resume /\ cp.exists /\ last # ""
                 THEN h0 \o <<Tr("ResumeLoaded", last, st.Outcome)>> ELSE h0
           ctx0 == IF g.goal # "" THEN Put(EmptyMap, "graph.goal", VStr(g.goal)) ELSE EmptyMap
           startID == IF resume /\ last # "" THEN next ELSE findStartNode(g)
       IN /\ cfg' = IF HasErrors(ValidateGraph(g)) \/ (resume /\ ~cp.exists)
                       \/ (resume /\ last # "" /\ (~st.exists \/ next = ""))
                    THEN NoCfg ELSE [RunID |-> rid, Resume |-> resume, stop |-> stop]
          /\ IF HasErrors(ValidateGraph(g))
             THEN /\ ret' = [kind |-> "error", err |-> "validation failed", rid |-> rid, resume |-> resume]
                  /\ UNCHANGED <<hist, workspace, pc, current, Context, RetryCount, Completed>>
             ELSE /\ workspace' = IF resume THEN workspace
                                  ELSE [workspace EXCEPT ![rid] = g.src]
                  /\ IF resume /\ ~cp.exists
                     THEN /\ hist' = [hist EXCEPT ![rid] = h0]
                          /\ ret' = [kind |-> "error", err |-> "open checkpoint.json: no such file",
                                     rid |-> rid, resume |-> resume]
                          /\ UNCHANGED <<pc, current, Context, RetryCount, Completed>>
                     ELSE IF resume /\ last # "" /\ ~st.exists
                     THEN /\ hist' = [hist EXCEPT ![rid] = h0]
                          /\ ret' = [kind |-> "error", err |-> "open status.json: no such file",
                                     rid |-> rid, resume |-> resume]
                          /\ UNCHANGED <<pc, current, Context, RetryCount, Completed>>
                     ELSE IF resume /\ last # "" /\ next = ""
                     THEN /\ hist' = [hist EXCEPT ![rid] = h1]
                          /\ ret' = IF isExit(g, last)
                                    THEN [kind |-> "ok", err |-> "", rid |-> rid, resume |-> resume]
                                    ELSE [kind |-> "error", err |-> "resume failed: no route from " \o last,
                                          rid |-> rid, resume |-> resume]
                          /\ UNCHANGED <<pc, current, Context, RetryCount, Completed>>
                     ELSE /\ hist' = [hist EXCEPT ![rid] =
                                        h1 \o <<Ev("PipelineStarted", "", ""),
                                                Tr("PipelineStarted", startID, "")>>]
                          /\ Context' = IF resume THEN jsonUnmarshal(cp.Context) ELSE ctx0
                          /\ RetryCount' = IF resume THEN cp.RetryCounts ELSE ZeroCounts
                          /\ Completed' = IF resume THEN resumeCompleted(cp) ELSE {}
                          /\ current' = startID
                          /\ pc' = "loop"
                          /\ UNCHANGED ret
    /\ UNCHANGED <<scenario, attempt, out, checkpoint, status, crashes>>

----------------------------------------------------------------------------
(* Engine.executeFrom and Engine.executeNode, one action per step *)

\* top of the stage loop up to the first attempt of executeNode
BeginStage ==
    /\ pc = "loop"
    /\ StagesStarted(cfg.RunID) < MaxStages
    /\ LET g == scenario
           h == hist[cfg.RunID] \o <<Ev("StageStarted", current, ""),
                                     Tr("NodeInputCaptured", current, "")>>
       IN IF current \notin NodeIds(g)
          THEN /\ ReturnFromExecute(hist[cfg.RunID], "missing node: " \o current)
               /\ UNCHANGED <<workspace>>
          ELSE IF unfixableFailureSourceReason(g, g.Nodes[current], Put(Context, "current_node", VStr(current)))
          THEN /\ ReturnFromExecute(h \o <<Ev("StageFailed", current, "unfixable_failure_source"),
                                           Tr("NodeExecutionErrored", current, "unfixable_failure_source")>>,
                                    "unfixable_failure_source")
               /\ UNCHANGED <<workspace>>
          ELSE /\ hist' = [hist EXCEPT ![cfg.RunID] = h]
               /\ Context' = Put(Context, "current_node", VStr(current))
               /\ attempt' = 0
               /\ out' = ZeroOutcome
               /\ pc' = IF g.Nodes[current].max_retries + 1 > 0 THEN "attempt" ELSE "status"
               /\ UNCHANGED <<cfg, current, RetryCount, Completed, ret, workspace>>
    /\ UNCHANGED <<scenario, checkpoint, status, calls, crashes>>

requiredToolCheck_off(node, st, o) == o

\* the requires_tool_success coercion of executeNode; st is the status.json map
requiredToolCheck(node, st, o) ==
    IF node.requires_tool_success /\ o.Outcome = "success" /\ node.required_tool_node # ""
       /\ (node.required_tool_node \notin AllIds
           \/ ~st[node.required_tool_node].exists
           \/ st[node.required_tool_node].Outcome # "success")
    THEN [o EXCEPT !.Outcome = "fail",
                   !.FailureReason = Reason("required tool node not successful: " \o node.required_tool_node)]
    ELSE o

\* the write-allowlist check of executeNode: the violating paths, sorted
guardrailViolations(node, diff) ==
    IF isExecutableNode(node) /\ Len(ParseAllowedWritePaths(node)[1]) > 0
    THEN disallowedDiffPaths(diff, ParseAllowedWritePaths(node)[1])
    ELSE <<>>

exhaustedOutcome_alwaysFail(node, o) ==
    [o EXCEPT !.Outcome = "fail",
              !.FailureReason = IF o.FailureReason = NoReason THEN Reason("retry_exhausted")
                                ELSE o.FailureReason]

exhaustedOutcome_keepsRetry(node, o) == o

\* the conversion of a retry outcome on the last attempt
exhaustedOutcome(node, o) ==
    IF node.allow_partial THEN [o EXCEPT !.Outcome = "partial_success"]
    ELSE [o EXCEPT !.Outcome = "fail",
                   !.FailureReason = IF o.FailureReason = NoReason THEN Reason("retry_exhausted")
                                     ELSE o.FailureReason]

mayRetry_always(node, att) == TRUE

\* attempt < attempts-1
mayRetry(node, att) == att < (node.max_retries + 1) - 1

\* one iteration of the attempt loop of executeNode
Attempt ==
    /\ pc = "attempt"
    /\ LET rid == cfg.RunID
           node == scenario.Nodes[current]
       IN \E r \in HandlerExecute(scenario, node, current, Context, workspace[rid]) :
            /\ workspace' = [workspace EXCEPT ![rid] = r.ws]
            /\ IF r.err # ""
               THEN /\ ReturnFromExecute(hist[rid] \o <<Hc(current), Ev("StageFailed", current, r.err),
                                                        Tr("NodeExecutionErrored", current, r.err)>>, r.err)
               ELSE LET o1 == requiredToolCheck(node, status[rid], r.out)
                        diff == computeDiff(snapshotWorkspace(workspace[rid]), snapshotWorkspace(r.ws))
                        viol == guardrailViolations(node, diff)
                        o2 == IF viol # <<>>
                              THEN [o1 EXCEPT !.Outcome = "fail",
                                              !.FailureReason = [msg |-> "guardrail_violation: wrote disallowed files",
                                                                 paths |-> viol]]
                              ELSE o1
                        h == hist[rid] \o <<Hc(current),
                                            Fw("workspace.diff.json", current,
                                               diff.Created \o diff.Modified \o diff.Deleted)>>
                                \o (IF viol # <<>>
                                    THEN <<[Ev("GuardrailViolation", current, "") EXCEPT !.p = viol]>>
                                    ELSE <<>>)
                                \o <<[Mem("AttemptOutcome", current) EXCEPT !.x = o2.Outcome],
                                     [Mem("AttemptReason", current) EXCEPT !.x = o2.FailureReason.msg]>>
                    IN IF o2.Outcome = "retry" /\ mayRetry(node, attempt)
                       THEN /\ RetryCount' = [RetryCount EXCEPT ![current] = @ + 1]
                            /\ Context' = Put(Context, RetryKey(current), VInt(RetryCount[current] + 1))
                            /\ hist' = [hist EXCEPT ![rid] = h \o <<Ev("StageRetrying", current, "")>>]
                            /\ attempt' = attempt + 1
                            /\ out' = o2
                            /\ UNCHANGED <<pc, cfg, current, Completed, ret>>
                       ELSE /\ out' = IF o2.Outcome = "retry" THEN exhaustedOutcome(node, o2) ELSE o2
                            /\ hist' = [hist EXCEPT ![rid] = h]
                            /\ pc' = "status"
                            /\ UNCHANGED <<cfg, current, attempt, Context, RetryCount, Completed, ret>>
    /\ UNCHANGED <<scenario, checkpoint, status, calls, crashes>>

\* writeJSON(status.json)
WriteStatus ==
    /\ pc = "status"
    /\ status' = [status EXCEPT ![cfg.RunID][current] =
                    [exists |-> TRUE, Outcome |-> out.Outcome, FailureReason |-> out.FailureReason,
                     ContextUpdates |-> jsonMarshal(out.ContextUpdates)]]
    /\ hist' = [hist EXCEPT ![cfg.RunID] = Append(@, Fw("status.json", current, <<>>))]
    /\ pc' = "post"
    /\ UNCHANGED <<scenario, cfg, current, attempt, out, Context, RetryCount, Completed, ret,
                   checkpoint, workspace, calls, crashes>>

stageOutputRecords_traceFirst(n, o) ==
    <<Tr("NodeOutputCaptured", n, o.Outcome),
      IF o.Outcome = "fail" THEN Ev("StageFailed", n, o.FailureReason.msg)
      ELSE Ev("StageCompleted", n, o.Outcome),
      Mem("ContextUpdated", n)>>

\* the records executeFrom produces between the status write and the checkpoint
stageOutputRecords(n, o) ==
    <<IF o.Outcome = "fail" THEN Ev("StageFailed", n, o.FailureReason.msg)
      ELSE Ev("StageCompleted", n, o.Outcome),
      Mem("ContextUpdated", n),
      Tr("NodeOutputCaptured", n, o.Outcome)>>

\* from the StageFailed / StageCompleted event to e.Completed[node.ID] = true
AfterStatus ==
    /\ pc = "post"
    /\ LET node == scenario.Nodes[current]
           ctx1 == Merge(Context, out.ContextUpdates)
           ctx2 == IF out.Outcome = "fail" THEN captureFailureFeedback(ctx1, node, current, out) ELSE ctx1
       IN /\ Context' = Put(ctx2, "outcome", VStr(out.Outcome))
          /\ hist' = [hist EXCEPT ![cfg.RunID] = @ \o stageOutputRecords(current, out)]
    /\ Completed' = Completed \cup {current}
    /\ pc' = "checkpoint"
    /\ UNCHANGED <<scenario, cfg, current, attempt, out, RetryCount, ret, checkpoint, status,
                   workspace, calls, crashes>>

\* writeCheckpoint: the sorted list of the keys of e.Completed (the ids of
\* done in the order of IdOrder, which is what SortStrings(SetToSeq(done)) yields)
checkpointCompleted(done) == SelectSeq(IdOrder, LAMBDA id : id \in done)

WriteCheckpoint ==
    /\ pc = "checkpoint"
    /\ checkpoint' = [checkpoint EXCEPT ![cfg.RunID] =
                        [exists |-> TRUE, LastCompletedNode |-> current,
                         CompletedNodes |-> checkpointCompleted(Completed),
                         RetryCounts |-> RetryCount, Context |-> jsonMarshal(Context)]]
    /\ hist' = [hist EXCEPT ![cfg.RunID] =
                  @ \o <<Fw("checkpoint.json", current, <<>>), Ev("CheckpointSaved", current, "")>>]
    /\ pc' = "route"
    /\ UNCHANGED <<scenario, cfg, current, attempt, out, Context, RetryCount, Completed, ret,
                   status, workspace, calls, crashes>>

\* the test-stop hook, the exit test and the routing at the end of the loop body
RouteStep ==
    /\ pc = "route"
    /\ LET g == scenario
           next == selectNext(g.Edges, current, out.Outcome)
           h == hist[cfg.RunID] \o <<Tr("RouteEvaluated", current, next)>>
       IN IF cfg.stop # "" /\ cfg.stop = current
          THEN ReturnFromExecute(hist[cfg.RunID], "test_stop")
          ELSE IF isExit(g, current)
          THEN ReturnFromExecute(hist[cfg.RunID], "")
          ELSE IF next = ""
          THEN ReturnFromExecute(h, "no route from node " \o current \o " for outcome " \o out.Outcome)
          ELSE /\ hist' = [hist EXCEPT ![cfg.RunID] = h]
               /\ current' = next
               /\ pc' = "loop"
               /\ attempt' = 0
               /\ out' = ZeroOutcome
               /\ UNCHANGED <<cfg, Context, RetryCount, Completed, ret>>
    /\ UNCHANGED <<scenario, checkpoint, status, workspace, calls, crashes>>

\* the process dies: memory is lost, the run directory stays as it is
Crash ==
    /\ pc # "idle"
    /\ scenario.mayCrash
    /\ crashes < MaxCrashes
    /\ crashes' = crashes + 1
    /\ ret' = [kind |-> "crash", err |-> "", rid |-> cfg.RunID, resume |-> cfg.Resume]
    /\ ResetMemory
    /\ UNCHANGED <<scenario, checkpoint, status, workspace, hist, calls>>

----------------------------------------------------------------------------
(* Specifications *)

\* a call of RunPipeline on run id r1, fresh or resuming, with any test-stop hook
Invoke ==
    /\ calls < MaxCalls
    /\ \E resume \in BOOLEAN : \E stop \in {""} \cup NodeIds(scenario) :
          RunPipeline("r1", resume, stop)

Init == InitEngine /\ RouteOff /\ FilterOff /\ HideOff /\ VerifyOff /\ GraphOff /\ PipesOff

Next ==
    \/ (Invoke /\ UNCHANGED harnessVars)
    \/ (BeginStage /\ UNCHANGED harnessVars)
    \/ (Attempt /\ UNCHANGED harnessVars)
    \/ (WriteStatus /\ UNCHANGED harnessVars)
    \/ (AfterStatus /\ UNCHANGED harnessVars)
    \/ (WriteCheckpoint /\ UNCHANGED harnessVars)
    \/ (RouteStep /\ UNCHANGED harnessVars)
    \/ (Crash /\ UNCHANGED harnessVars)

Spec == Init /\ [][Next]_vars

EngineIdle ==
    /\ scenario = ScLinear
    /\ pc = "idle" /\ cfg = NoCfg /\ current = "" /\ attempt = 0 /\ out = ZeroOutcome
    /\ Context = EmptyMap /\ RetryCount = ZeroCounts /\ Completed = {}
    /\ ret = RetNone
    /\ checkpoint = [r \in RunIDs |-> NoCheckpoint]
    /\ status = [r \in RunIDs |-> [id \in AllIds |-> NoStatus]]
    /\ workspace = [r \in RunIDs |-> EmptyWorkspace]
    /\ hist = [r \in RunIDs |-> <<>>]
    /\ calls = 0 /\ crashes = 0

InitRouting == EngineIdle /\ InitRoute /\ FilterOff /\ HideOff /\ VerifyOff /\ GraphOff /\ PipesOff

NextRoute ==
    \/ (AddEdge /\ UNCHANGED <<engineVars, filterVars, hideVars, verifyVars, graphVars, pipeVars>>)
    \/ (Route /\ UNCHANGED <<engineVars, filterVars, hideVars, verifyVars, graphVars, pipeVars>>)

SpecRoute == InitRouting /\ [][NextRoute]_vars

InitTool == EngineIdle /\ RouteOff /\ InitFilter /\ HideOff /\ VerifyOff /\ GraphOff /\ PipesOff

NextTool ==
    \/ (TypeChar /\ UNCHANGED <<engineVars, routeVars, hideVars, verifyVars, graphVars, pipeVars>>)
    \/ (RunTool /\ UNCHANGED <<engineVars, routeVars, hideVars, verifyVars, graphVars, pipeVars>>)

SpecTool == InitTool /\ [][NextTool]_vars

InitAdapter == EngineIdle /\ RouteOff /\ FilterOff /\ InitHide /\ VerifyOff /\ GraphOff /\ PipesOff

NextAdapter ==
    \/ (HideBlocked /\ UNCHANGED <<engineVars, routeVars, filterVars, verifyVars, graphVars, pipeVars>>)
    \/ (HideScope /\ UNCHANGED <<engineVars, routeVars, filterVars, verifyVars, graphVars, pipeVars>>)
    \/ (RunAgent /\ UNCHANGED <<engineVars, routeVars, filterVars, verifyVars, graphVars, pipeVars>>)
    \/ (Restore /\ UNCHANGED <<engineVars, routeVars, filterVars, verifyVars, graphVars, pipeVars>>)

SpecAdapter == InitAdapter /\ [][NextAdapter]_vars

----------------------------------------------------------------------------
(* C1: routing *)

\* indices of the candidate edges: the matching conditionals, else the unconditionals
CandidateSet(edges, from, outcome) ==
    LET matching == {i \in 1..Len(edges) : edges[i].From = from
                                           /\ edges[i].condition = OutcomeCond(outcome)}
        uncond == {i \in 1..Len(edges) : edges[i].From = from /\ edges[i].condition = ""}
    IN IF matching # {} THEN matching ELSE uncond

\* the edge list reordered by the permutation f of its indices
Reordered(edges, f) == [i \in 1..Len(edges) |-> edges[f[i]]]

\* C1: selectNext returns the target of a candidate of highest weight, the
\* lexically smallest target among those of that weight; it returns "" exactly
\* when there is no candidate (a non-matching conditional is never one), and
\* the result is the same for every declaration order of the edges
C1_RoutingIsDeterministic ==
    rPc = "routed" =>
      LET cand == CandidateSet(rEdges, rFrom, rOutcome)
      IN /\ (rResult = "") <=> (cand = {})
         /\ cand # {} =>
              \E i \in cand :
                 /\ rEdges[i].To = rResult
                 /\ \A j \in cand :
                      \/ rEdges[i].weight > rEdges[j].weight
                      \/ /\ rEdges[i].weight = rEdges[j].weight
                         /\ ~StrLess(rEdges[j].To, rEdges[i].To)
         /\ \A f \in Permutations(1..Len(rEdges)) :
              selectNext(Reordered(rEdges, f), rFrom, rOutcome) = rResult

\* two matching conditionals tie on weight, an unconditional edge weighs more
C1_Witness ==
    /\ rPc = "routed" /\ rOutcome = "success" /\ rResult = "b" /\ Len(rEdges) = 3
    /\ rEdges[1] = Edge("a", "c", "outcome=success", 0)
    /\ rEdges[2] = Edge("a", "b", "outcome=success", 0)
    /\ rEdges[3] = Edge("a", "c", "", 1)

----------------------------------------------------------------------------
(* Reading the record of a run directory *)

IsEv(r, t) == r.f = "events" /\ r.t = t
IsTr(r, t) == r.f = "trace" /\ r.t = t
IsFw(r, t) == r.f = "file" /\ r.t = t
IsMem(r, t) == r.f = "memory" /\ r.t = t

MinOf(S) == CHOOSE x \in S : \A y \in S : x <= y
MaxOf(S) == CHOOSE x \in S : \A y \in S : x >= y

\* positions where a stage starts, and where an invocation starts
StageStarts(h) == {i \in 1..Len(h) : IsEv(h[i], "StageStarted")}
CallStarts(h) == {i \in 1..Len(h) : IsFw(h[i], "manifest.json")}

Positions(seg, f, t) == {k \in 1..Len(seg) : seg[k].f = f /\ seg[k].t = t}
Invocations(seg) == Cardinality(Positions(seg, "call", "handler"))
Retries(seg) == Cardinality(Positions(seg, "events", "StageRetrying"))
StatusWritten(seg) == Positions(seg, "file", "status.json") # {}
VisitEnded(seg) == StatusWritten(seg) \/ Positions(seg, "trace", "NodeExecutionErrored") # {}

RECURSIVE LastStageStart(_, _)
\* the position of the last StageStarted at or before k, 0 when there is none
LastStageStart(h, k) ==
    IF k = 0 THEN 0
    ELSE IF IsEv(h[k], "StageStarted") THEN k
    ELSE LastStageStart(h, k - 1)

RECURSIVE LastVisitEnd(_, _)
\* the end of the visit whose records reach position k: the next record that
\* starts an invocation ends it
LastVisitEnd(h, k) ==
    IF k = Len(h) THEN k
    ELSE IF IsFw(h[k + 1], "manifest.json") THEN k
    ELSE LastVisitEnd(h, k + 1)

\* the latest visit on record; every visit is the latest one while its records
\* are being appended
LastVisit(h) ==
    LET i == LastStageStart(h, Len(h))
    IN SubSeq(h, i, LastVisitEnd(h, i))

\* the visit in progress of the running invocation
CurrentVisit == LastVisit(hist[cfg.RunID])

----------------------------------------------------------------------------
(* C2: the retry budget of one visit *)

\* C2: in the latest visit on record, hence in every visit, of a node with max_retries = n the handler is invoked at
\* most n + 1 times, exactly once when n = 0 and the stage reaches its status;
\* an invocation other than the first directly follows a StageRetrying event,
\* every StageRetrying event follows an attempt whose outcome after the
\* guardrail check is retry and leaves an attempt to make, and a visit that
\* ended counts one StageRetrying event less than handler invocations
C2_RetryBudget ==
    \A rid \in RunIDs : LastStageStart(hist[rid], Len(hist[rid])) > 0 =>
       LET seg == LastVisit(hist[rid])
           n == scenario.Nodes[seg[1].n].max_retries
           callsBefore(k) == Cardinality({j \in Positions(seg, "call", "handler") : j < k})
       IN /\ Invocations(seg) <= n + 1
          /\ (StatusWritten(seg) /\ n = 0) => Invocations(seg) = 1
          /\ \A k \in Positions(seg, "call", "handler") :
                callsBefore(k) > 0 => IsEv(seg[k - 1], "StageRetrying")
          /\ \A k \in Positions(seg, "events", "StageRetrying") :
                /\ IsMem(seg[k - 2], "AttemptOutcome") /\ seg[k - 2].x = "retry"
                /\ callsBefore(k) <= n
          /\ (VisitEnded(seg) /\ Invocations(seg) >= 1) => Retries(seg) = Invocations(seg) - 1

\* TestRetryHonored: retry, retry, success under max_retries = 2
C2_Witness ==
    /\ scenario.name = "retry" /\ pc = "post" /\ current = "a"
    /\ Invocations(CurrentVisit) = 3 /\ Retries(CurrentVisit) = 2
    /\ status[cfg.RunID]["a"].Outcome = "success"

----------------------------------------------------------------------------
(* C3: the outcome of an exhausted retry budget and of a guardrail violation *)

AttemptOutcomes(seg) == SelectSeq(seg, LAMBDA r : IsMem(r, "AttemptOutcome"))
AttemptReasons(seg) == SelectSeq(seg, LAMBDA r : IsMem(r, "AttemptReason"))
GuardrailMsg == "guardrail_violation: wrote disallowed files"

\* C3: when the status of a stage is written, if all max_retries + 1 attempts
\* came out as retry the recorded outcome is partial_success under
\* allow_partial and otherwise fail, with reason retry_exhausted unless the
\* last attempt carried a reason; if an attempt violated the write allowlist
\* the recorded outcome is fail with the guardrail reason and its paths
C3_RetryExhaustion ==
    pc = "post" =>
      LET seg == CurrentVisit
          node == scenario.Nodes[current]
          ao == AttemptOutcomes(seg)
          ar == AttemptReasons(seg)
          st == status[cfg.RunID][current]
          gv == Positions(seg, "events", "GuardrailViolation")
          allRetry == Len(ao) = node.max_retries + 1 /\ \A k \in 1..Len(ao) : ao[k].x = "retry"
      IN /\ st.exists
         /\ (allRetry /\ node.allow_partial) => st.Outcome = "partial_success"
         /\ (allRetry /\ ~node.allow_partial) =>
               /\ st.Outcome = "fail"
               /\ st.FailureReason.msg = IF Last(ar).x = "" THEN "retry_exhausted" ELSE Last(ar).x
         /\ gv # {} =>
               /\ st.Outcome = "fail"
               /\ st.FailureReason.msg = GuardrailMsg
               /\ st.FailureReason.paths = seg[MaxOf(gv)].p
               /\ st.FailureReason.paths # <<>>
         /\ st.FailureReason.msg = "retry_exhausted" => (allRetry /\ ~node.allow_partial)

\* TestRetryExhaustionFails: two attempts, both retry, no allow_partial
C3_Witness ==
    /\ scenario.name = "exhaust" /\ pc = "post" /\ current = "a"
    /\ Len(AttemptOutcomes(CurrentVisit)) = 2
    /\ status[cfg.RunID]["a"].Outcome = "fail"
    /\ status[cfg.RunID]["a"].FailureReason.msg = "retry_exhausted"

----------------------------------------------------------------------------
(* C4: the write allowlist *)

\* the matching rule as the specification words it: the entry equals the path, or the
\* entry ends in "/" and the path is the prefix or lies below it
EntryMatches(entry, path) ==
    \/ entry = path
    \/ /\ HasSuffix(entry, <<"/">>)
       /\ (path = TrimSuffix(entry, <<"/">>) \/ HasPrefix(path, entry))

\* the paths of the last workspace.diff.json of a visit
LastDiff(seg) == seg[MaxOf(Positions(seg, "file", "workspace.diff.json"))].p

Unmatched(paths, allowed) ==
    {i \in 1..Len(paths) : \A e \in 1..Len(allowed) : ~EntryMatches(allowed[e], paths[i])}

\* the stage came out as a guardrail failure: outcome, reason and event
GuardrailFailure(seg, o) ==
    /\ o.Outcome = "fail"
    /\ o.FailureReason.msg = GuardrailMsg
    /\ \E k \in Positions(seg, "events", "GuardrailViolation") :
          /\ k > MaxOf(Positions(seg, "file", "workspace.diff.json"))
          /\ seg[k].p = o.FailureReason.paths

\* a tool or codergen stage with a write allowlist has finished its attempts
GuardedStageDone ==
    /\ pc = "status"
    /\ resolveHandler(scenario.Nodes[current]) \in {"tool", "codergen"}
    /\ Len(scenario.Nodes[current].allowed_write_paths) > 0

\* C4: a tool or codergen stage with a non-empty write allowlist ends as a
\* guardrail failure (fail, the guardrail reason, a GuardrailViolation event)
\* exactly when some path of the attempt's diff is matched by no allowlist
\* entry, whatever the handler returned
C4_GuardrailIffDisallowed ==
    GuardedStageDone =>
      LET seg == CurrentVisit
          allowed == ParseAllowedWritePaths(scenario.Nodes[current])[1]
      IN (Unmatched(LastDiff(seg), allowed) # {}) <=> GuardrailFailure(seg, out)

\* the same equivalence for diffs whose paths carry no surrounding white space,
\* with the violating paths named in the reason
C4_HoldsForTrimmedPaths ==
    (GuardedStageDone /\ \A i \in 1..Len(LastDiff(CurrentVisit)) :
                            TrimSpace(LastDiff(CurrentVisit)[i]) = LastDiff(CurrentVisit)[i]) =>
      LET seg == CurrentVisit
          allowed == ParseAllowedWritePaths(scenario.Nodes[current])[1]
          bad == Unmatched(LastDiff(seg), allowed)
      IN /\ (bad # {}) <=> GuardrailFailure(seg, out)
         /\ bad # {} => SeqToSet(out.FailureReason.paths) = {LastDiff(seg)[i] : i \in bad}

----------------------------------------------------------------------------
(* C5: the order of the records of one stage *)

\* the records the ordering is stated for; the others (run-level events, the
\* outcome of an attempt) are left out of the comparison
Ordered(r) ==
    \/ r.f = "events" /\ r.t \in {"StageStarted", "GuardrailViolation", "StageRetrying",
                                  "StageCompleted", "StageFailed", "CheckpointSaved"}
    \/ r.f = "trace" /\ r.t \in {"NodeInputCaptured", "NodeOutputCaptured", "RouteEvaluated"}
    \/ r.f = "file" /\ r.t \in {"workspace.diff.json", "status.json", "checkpoint.json"}
    \/ r.f = "call"
    \/ r.f = "memory" /\ r.t = "ContextUpdated"

\* one step of the recogniser of
\*   StageStarted NodeInputCaptured
\*   (handler workspace.diff.json GuardrailViolation? StageRetrying?)+
\*   status.json (StageCompleted | StageFailed) ContextUpdated NodeOutputCaptured
\*   checkpoint.json CheckpointSaved RouteEvaluated?
\* the result -1 rejects
OrderStep(q, r) ==
    CASE q = 0 /\ IsEv(r, "StageStarted") -> 1
      [] q = 1 /\ IsTr(r, "NodeInputCaptured") -> 2
      [] q = 2 /\ r.f = "call" -> 3
      [] q = 3 /\ IsFw(r, "workspace.diff.json") -> 4
      [] q = 4 /\ IsEv(r, "GuardrailViolation") -> 5
      [] q \in {4, 5} /\ IsEv(r, "StageRetrying") -> 6
      [] q = 6 /\ r.f = "call" -> 3
      [] q \in {4, 5} /\ IsFw(r, "status.json") -> 7
      [] q = 7 /\ (IsEv(r, "StageCompleted") \/ IsEv(r, "StageFailed")) -> 8
      [] q = 8 /\ IsMem(r, "ContextUpdated") -> 9
      [] q = 9 /\ IsTr(r, "NodeOutputCaptured") -> 10
      [] q = 10 /\ IsFw(r, "checkpoint.json") -> 11
      [] q = 11 /\ IsEv(r, "CheckpointSaved") -> 12
      [] q = 12 /\ IsTr(r, "RouteEvaluated") -> 13
      [] OTHER -> -1

RECURSIVE OrderRun(_, _, _)
OrderRun(seg, k, q) ==
    IF k > Len(seg) \/ q = -1 THEN q ELSE OrderRun(seg, k + 1, OrderStep(q, seg[k]))

OrderState(seg) == OrderRun(SelectSeq(seg, Ordered), 1, 0)

Checkpointed(seg) == Positions(seg, "events", "CheckpointSaved") # {}

\* C5: the records of a stage whose checkpoint was saved are, in this order,
\* StageStarted, NodeInputCaptured, the attempts (handler, then diff write),
\* the status write, StageCompleted or StageFailed, the context update,
\* NodeOutputCaptured, the checkpoint write with CheckpointSaved and, last and
\* never for an exit node, RouteEvaluated; all of them name the stage's node;
\* and a stage that is not the first of its invocation starts right after the
\* RouteEvaluated that follows the CheckpointSaved of the stage before it
C5_StageRecordOrder ==
    \A rid \in RunIDs : LastStageStart(hist[rid], Len(hist[rid])) > 0 =>
       LET h == hist[rid]
           i == LastStageStart(h, Len(h))
           seg == LastVisit(h)
           q == OrderState(seg)
       IN /\ Checkpointed(seg) =>
               /\ q \in {12, 13}
               /\ \A k \in 1..Len(seg) : Ordered(seg[k]) => seg[k].n = seg[1].n
               /\ isExit(scenario, seg[1].n) => q = 12
          /\ \/ IsTr(h[i - 1], "PipelineStarted")
             \/ /\ IsTr(h[i - 1], "RouteEvaluated") /\ h[i - 1].x = h[i].n
                /\ IsEv(h[i - 2], "CheckpointSaved") /\ h[i - 2].n = h[i - 1].n

\* a stage with two retries that went on to the next stage
C5_Witness ==
    /\ scenario.name = "retry"
    /\ StageStarts(hist["r1"]) # {}
    /\ LastVisit(hist["r1"])[1].n = "a"
    /\ Retries(LastVisit(hist["r1"])) = 2
    /\ OrderState(LastVisit(hist["r1"])) = 13

----------------------------------------------------------------------------
(* C6: the checkpoint *)

\* the nodes whose checkpoint was ever saved in a run directory
SavedNodes(h) == {h[i].n : i \in Positions(h, "events", "CheckpointSaved")}

IsSortedStrict(s) == \A i \in 1..(Len(s) - 1) : StrLess(s[i], s[i + 1])

C6_CheckpointState ==
    \A rid \in RunIDs :
       LET cp == checkpoint[rid]
           saved == Positions(hist[rid], "events", "CheckpointSaved")
       IN /\ cp.exists <=> saved # {}
          /\ cp.exists =>
               /\ cp.LastCompletedNode = hist[rid][MaxOf(saved)].n
               /\ IsSortedStrict(cp.CompletedNodes)
               /\ SeqToSet(cp.CompletedNodes) = SavedNodes(hist[rid])
          /\ (pc = "route" /\ cfg.RunID = rid) =>
               /\ cp.LastCompletedNode = current
               /\ SeqToSet(cp.CompletedNodes) = Completed
               /\ cp.RetryCounts = RetryCount
               /\ cp.Context = jsonMarshal(Context)
               /\ DOMAIN cp.Context = DOMAIN Context
          /\ (scenario.name = "linear" /\ cp.LastCompletedNode = "exit") =>
               cp.CompletedNodes = <<"a", "exit", "start">>

C6_CompletedOnlyGrows ==
    [][\A rid \in RunIDs : SeqToSet(checkpoint[rid].CompletedNodes)
                              \subseteq SeqToSet(checkpoint'[rid].CompletedNodes)]_vars

\* C6: once a stage has completed checkpoint.json names it as
\* last_completed_node and holds the sorted duplicate-free list of every node
\* whose checkpoint was saved in the run directory, before a resume included,
\* with the engine's retry counts and context; the list never loses a node; a
\* linear run start -> a -> exit ends with [a, exit, start] and last node exit
C6_Checkpoint == []C6_CheckpointState /\ C6_CompletedOnlyGrows

\* a run stopped and resumed to its end: the nodes of both invocations are listed
C6_Witness ==
    /\ scenario.name = "linear" /\ ret.kind = "ok" /\ ret.resume /\ pc = "idle"
    /\ checkpoint["r1"].CompletedNodes = <<"a", "exit", "start">>
    /\ checkpoint["r1"].LastCompletedNode = "exit"
    /\ Cardinality(StageStarts(hist["r1"])) = 3

----------------------------------------------------------------------------
(* C7: the test-stop hook and the resume that follows it *)

\* positions of the PipelineFailed events that record a test_stop
TestStops(h) == {i \in 1..Len(h) : IsEv(h[i], "PipelineFailed") /\ h[i].x = "test_stop"}

\* the stages started after the latest test_stop
StartedAfterStop(h) == {j \in StageStarts(h) : j > MaxOf(TestStops(h))}

\* the node the latest test_stop stopped at, and the outcome recorded for it
StoppedNode(h) == h[MaxOf(TestStops(h)) - 1].n
StoppedOutcome(h) == h[MaxOf(TestStops(h)) - 3].x

\* a test_stop is recorded right after the checkpoint of the stopped node:
\* no RouteEvaluated lies between
StopFollowsCheckpoint(h) ==
    \A i \in TestStops(h) :
       /\ i > 3
       /\ IsEv(h[i - 1], "CheckpointSaved")
       /\ IsFw(h[i - 2], "checkpoint.json") /\ h[i - 2].n = h[i - 1].n
       /\ IsTr(h[i - 3], "NodeOutputCaptured") /\ h[i - 3].n = h[i - 1].n

\* the first stage started after a test_stop is the successor of the stopped
\* node under its recorded outcome
ResumeStartsAtSuccessor(h) ==
    (TestStops(h) # {} /\ StartedAfterStop(h) # {}) =>
       h[MinOf(StartedAfterStop(h))].n = selectNext(scenario.Edges, StoppedNode(h), StoppedOutcome(h))

\* the stopped node is never started after the test_stop
StoppedNodeNeverRestarted(h) ==
    TestStops(h) # {} => \A j \in StartedAfterStop(h) : h[j].n # StoppedNode(h)

\* the stopped node is started after the test_stop only when the edges lead
\* from its successor back to it
StoppedNodeRestartedOnlyByRoute(h) ==
    TestStops(h) # {} =>
       \A j \in StartedAfterStop(h) :
          h[j].n = StoppedNode(h) =>
             StoppedNode(h) \in reachableFrom(scenario,
                 {selectNext(scenario.Edges, StoppedNode(h), StoppedOutcome(h))})

\* the invocation returns test_stop only from the point after the checkpoint of
\* the hooked node, and when that point is reached with the hook on the node
\* nothing else is returned
StopHookStep ==
    /\ (pc # "idle" /\ pc' = "idle" /\ ret'.err = "test_stop") =>
          /\ pc = "route" /\ cfg.stop = current
          /\ checkpoint[cfg.RunID].LastCompletedNode = current
          /\ IsEv(Last(hist[cfg.RunID]), "CheckpointSaved")
          /\ Last(hist[cfg.RunID]).n = current
    /\ (pc = "route" /\ cfg.stop = current /\ pc' # "route" /\ ret'.kind # "crash") =>
          ret'.err = "test_stop"

\* C7 as stated: the hook aborts with test_stop after the checkpoint of N and
\* before any route from N; the resume starts at the successor of N under the
\* recorded outcome; N is not started again by the resume
C7_StopAndResumeNeverRestarts ==
    \A rid \in RunIDs :
       /\ StopFollowsCheckpoint(hist[rid])
       /\ ResumeStartsAtSuccessor(hist[rid])
       /\ StoppedNodeNeverRestarted(hist[rid])

\* C7, amended: the hook aborts with test_stop after the checkpoint of N and
\* before any route from N; the resume starts its first stage at the successor
\* of N under the recorded outcome; N is started again by the resume only when
\* the graph routes from that successor back to N
C7_StopAndResume ==
    /\ [](\A rid \in RunIDs :
            /\ StopFollowsCheckpoint(hist[rid])
            /\ ResumeStartsAtSuccessor(hist[rid])
            /\ StoppedNodeRestartedOnlyByRoute(hist[rid]))
    /\ [][StopHookStep]_vars

\* the fix loop stopped at b: the resume starts at fix and comes back to b
C7_Witness ==
    /\ scenario.name = "loop"
    /\ TestStops(hist["r1"]) # {}
    /\ StoppedNode(hist["r1"]) = "b"
    /\ StartedAfterStop(hist["r1"]) # {}
    /\ hist["r1"][MinOf(StartedAfterStop(hist["r1"]))].n = "fix"
    /\ \E j \in StartedAfterStop(hist["r1"]) : hist["r1"][j].n = "b"

----------------------------------------------------------------------------
(* C8: a stopped and resumed run against the uninterrupted run *)

\* the uninterrupted run, in run directory r1
InvokeReference == RunPipeline("r1", FALSE, "")

\* the run that the test-stop hook stops after some node, in run directory r2
InvokeStopped == \E stop \in NodeIds(scenario) : RunPipeline("r2", FALSE, stop)

\* the resume of the stopped run
InvokeResume ==
    /\ ret.kind = "error" /\ ret.err = "test_stop" /\ ret.rid = "r2"
    /\ RunPipeline("r2", TRUE, "")

\* both runs execute the same valid pipeline with the deterministic test backend
InitEquiv == Init /\ scenario.backend = "fake" /\ ~HasErrors(ValidateGraph(scenario))

NextEquiv ==
    \/ (InvokeReference /\ UNCHANGED harnessVars)
    \/ (InvokeStopped /\ UNCHANGED harnessVars)
    \/ (InvokeResume /\ UNCHANGED harnessVars)
    \/ (BeginStage /\ UNCHANGED harnessVars)
    \/ (Attempt /\ UNCHANGED harnessVars)
    \/ (WriteStatus /\ UNCHANGED harnessVars)
    \/ (AfterStatus /\ UNCHANGED harnessVars)
    \/ (WriteCheckpoint /\ UNCHANGED harnessVars)
    \/ (RouteStep /\ UNCHANGED harnessVars)

SpecEquiv == InitEquiv /\ [][NextEquiv]_vars

\* the stages a run directory records, in order, each with its outcome
StageSeq(h) ==
    LET done == SelectSeq(h, LAMBDA r : IsTr(r, "NodeOutputCaptured"))
    IN [k \in 1..Len(done) |-> <<done[k].n, done[k].x>>]

IsPrefix(a, b) == Len(a) <= Len(b) /\ SubSeq(b, 1, Len(a)) = a

\* the last invocation on the run directory returned, and not by a test_stop
RunEnded(h) ==
    /\ h # <<>>
    /\ \/ IsTr(Last(h), "PipelineCompleted")
       \/ IsTr(Last(h), "PipelineFailed") /\ Last(h).x # "test_stop"

\* C8: the run stopped after a node's checkpoint and resumed records the same
\* stages with the same outcomes as the uninterrupted run of the same
\* pipeline, as far as both have got, and once both have ended their stage
\* sequences and their final checkpoints are equal
C8_ResumeEquivalent ==
    LET s1 == StageSeq(hist["r1"])
        s2 == StageSeq(hist["r2"])
    IN /\ IsPrefix(s1, s2) \/ IsPrefix(s2, s1)
       /\ (pc = "idle" /\ RunEnded(hist["r1"]) /\ RunEnded(hist["r2"])) =>
             /\ s1 = s2
             /\ checkpoint["r1"] = checkpoint["r2"]

\* the same equivalence for resumes that start no node whose retry count the
\* checkpoint holds as a non-zero number
C8_HoldsWithoutReloadedRetryCount ==
    (\A rid \in RunIDs : \A j \in StageStarts(hist[rid]) :
        (TestStops(hist[rid]) # {} /\ j > MaxOf(TestStops(hist[rid])))
           => checkpoint[rid].RetryCounts[hist[rid][j].n] = 0
              \/ RetryCount[hist[rid][j].n] = 0)
    => C8_ResumeEquivalent

----------------------------------------------------------------------------
(* C9: the resume after a crash *)

ResumeLoads(h) == {k \in 1..Len(h) : IsTr(h[k], "ResumeLoaded")}

\* C9: a resume routes from the node N of the last saved checkpoint with the
\* outcome N had when that checkpoint was written, wherever the earlier
\* invocation crashed, and the first stage it starts is the successor of N
\* under that outcome
C9_ResumeUsesCheckpointedOutcome ==
    \A rid \in RunIDs : ResumeLoads(hist[rid]) # {} =>
       LET h == hist[rid]
           k == MaxOf(ResumeLoads(h))
           j == MaxOf({c \in Positions(h, "events", "CheckpointSaved") : c < k})
           later == {i \in StageStarts(h) : i > k}
       IN /\ h[k].n = h[j].n
          /\ h[k].x = h[j - 2].x
          /\ later # {} => h[MinOf(later)].n = selectNext(scenario.Edges, h[j].n, h[j - 2].x)

\* the same without a crash: a resume after a test_stop or an error return
C9_HoldsWithoutCrash == crashes = 0 => C9_ResumeUsesCheckpointedOutcome

----------------------------------------------------------------------------
(* C10: what an invocation leaves in events.jsonl when it returns *)

Events(h) == SelectSeq(h, LAMBDA r : r.f = "events")

\* the records of the latest invocation on a run directory
LastCall(h) == IF CallStarts(h) = {} THEN <<>> ELSE SubSeq(h, MaxOf(CallStarts(h)), Len(h))

\* C10: when RunPipeline has returned nil the last event of events.jsonl is
\* PipelineCompleted, and when it has returned an error the invocation has
\* recorded a PipelineFailed event with that error's message
C10_EveryReturnRecorded ==
    (pc = "idle" /\ ret.kind \in {"ok", "error"}) =>
       LET h == hist[ret.rid]
       IN /\ ret.kind = "ok" =>
               /\ Events(h) # <<>>
               /\ Last(Events(h)).t = "PipelineCompleted"
          /\ ret.kind = "error" =>
               \E k \in 1..Len(LastCall(h)) :
                  IsEv(LastCall(h)[k], "PipelineFailed") /\ LastCall(h)[k].x = ret.err

\* the same for the returns of executeFrom: the invocations that got as far as
\* PipelineStarted
C10_HoldsOnceStarted ==
    (ret.rid \in RunIDs /\ Positions(LastCall(hist[ret.rid]), "events", "PipelineStarted") # {})
       => C10_EveryReturnRecorded

----------------------------------------------------------------------------
(* C11: how a run ends: exit nodes and missing routes *)

\* an exit node by its declaration: shape Msquare, or the id exit or end
ExitNode(id) == scenario.Nodes[id].shape = "Msquare" \/ id = "exit" \/ id = "end"

NoRouteMsg(id, o) == "no route from node " \o id \o " for outcome " \o o

\* the record at position i is the CheckpointSaved of node n, written after
\* the NodeOutputCaptured record of that stage
StageCheckpointed(h, i, n) ==
    /\ i > 2
    /\ IsEv(h[i], "CheckpointSaved") /\ h[i].n = n
    /\ IsFw(h[i - 1], "checkpoint.json") /\ h[i - 1].n = n
    /\ IsTr(h[i - 2], "NodeOutputCaptured") /\ h[i - 2].n = n

\* success only through an exit node: PipelineCompleted directly follows the
\* checkpoint of an exit node, and a nil return finds one in the run directory
SuccessOnlyAfterExit(h) ==
    /\ \A k \in Positions(h, "events", "PipelineCompleted") :
          k > 1 /\ StageCheckpointed(h, k - 1, h[k - 1].n) /\ ExitNode(h[k - 1].n)
    /\ (pc = "idle" /\ ret.kind = "ok" /\ hist[ret.rid] = h) =>
          \E i \in Positions(h, "events", "CheckpointSaved") : ExitNode(h[i].n)

\* what follows the checkpoint of a node without a candidate edge: for a
\* non-exit node the RouteEvaluated record naming no next node and then the
\* no-route error with the node and its outcome; the error is recorded nowhere else
NoRouteAfterCheckpoint(h) ==
    /\ \A i \in Positions(h, "events", "CheckpointSaved") :
          (~ExitNode(h[i].n) /\ CandidateSet(scenario.Edges, h[i].n, h[i - 2].x) = {}
             /\ i < Len(h) /\ IsTr(h[i + 1], "RouteEvaluated")) =>
                /\ h[i + 1].x = "" /\ h[i + 1].n = h[i].n
                /\ i + 1 < Len(h) =>
                      IsEv(h[i + 2], "PipelineFailed") /\ h[i + 2].x = NoRouteMsg(h[i].n, h[i - 2].x)
    /\ \A k \in Positions(h, "events", "PipelineFailed") :
          (\E id \in NodeIds(scenario), o \in Tags : h[k].x = NoRouteMsg(id, o)) =>
             /\ k > 4 /\ IsTr(h[k - 1], "RouteEvaluated") /\ h[k - 1].x = ""
             /\ StageCheckpointed(h, k - 2, h[k - 1].n)
             /\ ~ExitNode(h[k - 1].n)
             /\ CandidateSet(scenario.Edges, h[k - 1].n, h[k - 4].x) = {}
             /\ h[k].x = NoRouteMsg(h[k - 1].n, h[k - 4].x)

\* the record after the checkpoint of an exit node, if the invocation wrote
\* one, is PipelineCompleted (a later invocation starts with manifest.json)
ExitAlwaysCompletes(h) ==
    \A i \in Positions(h, "events", "CheckpointSaved") :
       (ExitNode(h[i].n) /\ i < Len(h)) =>
          IsEv(h[i + 1], "PipelineCompleted") \/ IsFw(h[i + 1], "manifest.json")

\* the same, with the test-stop hook: the error test_stop may follow instead
ExitCompletesOrStops(h) ==
    \A i \in Positions(h, "events", "CheckpointSaved") :
       (ExitNode(h[i].n) /\ i < Len(h)) =>
          \/ IsEv(h[i + 1], "PipelineCompleted") \/ IsFw(h[i + 1], "manifest.json")
          \/ IsEv(h[i + 1], "PipelineFailed") /\ h[i + 1].x = "test_stop"

\* the return that follows the checkpoint of the current node
ReturnAfterCheckpoint ==
    (pc = "route" /\ pc' = "idle" /\ ret'.kind # "crash") =>
       /\ (ExitNode(current) /\ cfg.stop # current) => (ret'.kind = "ok" /\ ret'.err = "")
       /\ (ExitNode(current) /\ cfg.stop = current) => ret'.err = "test_stop"
       /\ (~ExitNode(current) /\ cfg.stop # current) =>
             /\ ret'.err = NoRouteMsg(current, out.Outcome)
             /\ CandidateSet(scenario.Edges, current, out.Outcome) = {}
             /\ checkpoint[cfg.RunID].exists
             /\ checkpoint[cfg.RunID].LastCompletedNode = current

C11_WitnessNoRoute ==
    /\ scenario.name = "exhaust" /\ pc = "idle"
    /\ ret.err = NoRouteMsg("a", "fail")
    /\ checkpoint["r1"].LastCompletedNode = "a"

----------------------------------------------------------------------------
(* C12: guardrail violations are stage outcomes *)

\* the command of a tool node that the static filter rejects
CommandRejected(id) ==
    /\ resolveHandler(scenario.Nodes[id]) = "tool"
    /\ TrimSpace(scenario.Nodes[id].tool_command) # <<>>
    /\ validateToolCommand(TrimSpace(scenario.Nodes[id].tool_command)) # ""

\* the last attempt of a visit wrote outside the allowlist of its node
AllowlistViolated(seg) ==
    \E k \in Positions(seg, "events", "GuardrailViolation") :
       k > MaxOf(Positions(seg, "file", "workspace.diff.json"))

\* the visit of a node whose handler was invoked and hit a guardrail
GuardrailHit(seg) ==
    /\ Invocations(seg) > 0
    /\ (CommandRejected(seg[1].n) \/ AllowlistViolated(seg))

\* the stage of a guardrail hit: no handler error is recorded; once the
\* attempts are over status.json holds outcome fail with a reason; the records
\* that follow are StageFailed, the checkpoint and the route for outcome fail;
\* the invocation fails after it only with no route, when fail has no candidate
\* edge (or with the test-stop hook)
GuardrailIsData(rid) ==
    LET h == hist[rid]
        seg == LastVisit(h)
        n == seg[1].n
        st == status[rid][n]
        route == Positions(seg, "trace", "RouteEvaluated")
        failed == Positions(seg, "events", "PipelineFailed")
    IN GuardrailHit(seg) =>
         /\ Positions(seg, "trace", "NodeExecutionErrored") = {}
         /\ StatusWritten(seg) =>
               /\ st.exists /\ st.Outcome = "fail" /\ st.FailureReason.msg # ""
               /\ AllowlistViolated(seg) =>
                     st.FailureReason.msg = GuardrailMsg /\ st.FailureReason.paths # <<>>
               /\ (CommandRejected(n) /\ ~AllowlistViolated(seg)) =>
                     st.FailureReason.msg = validateToolCommand(TrimSpace(scenario.Nodes[n].tool_command))
         /\ Positions(seg, "events", "StageCompleted") = {}
         /\ Checkpointed(seg) =>
               /\ OrderState(seg) \in {12, 13}
               /\ checkpoint[rid].exists
               /\ n \in SeqToSet(checkpoint[rid].CompletedNodes)
         /\ \A k \in route :
               /\ seg[k].x = selectNext(scenario.Edges, n, "fail")
               /\ (seg[k].x # "" /\ k < Len(seg)) =>
                     IsEv(seg[k + 1], "StageStarted") /\ seg[k + 1].n = seg[k].x
         /\ \A k \in failed :
               \/ seg[k].x = "test_stop"
               \/ /\ seg[k].x = NoRouteMsg(n, "fail")
                  /\ CandidateSet(scenario.Edges, n, "fail") = {}
                  /\ Checkpointed(seg)

\* the step after the checkpoint of a guardrail hit, the test-stop hook aside:
\* the next stage is the one selected for outcome fail, and the run fails,
\* with no route, exactly when fail has no candidate edge
GuardrailRouteStep ==
    (pc = "route" /\ GuardrailHit(CurrentVisit) /\ ~ExitNode(current)
       /\ cfg.stop # current /\ pc' # "route" /\ ret'.kind # "crash") =>
          IF CandidateSet(scenario.Edges, current, "fail") = {}
          THEN pc' = "idle" /\ ret'.err = NoRouteMsg(current, "fail")
          ELSE pc' = "loop" /\ current' = selectNext(scenario.Edges, current, "fail")

C12_WitnessAllowlist ==
    /\ scenario.name = "guard_tool" /\ pc = "idle" /\ ret.kind = "ok"
    /\ status["r1"]["t"].Outcome = "fail"
    /\ status["r1"]["t"].FailureReason.msg = GuardrailMsg
    /\ checkpoint["r1"].LastCompletedNode = "exit"

----------------------------------------------------------------------------
(* C13: the static filter of tool commands *)

ContainsSub(s, sub) ==
    \E i \in 1..(Len(s) - Len(sub) + 1) : SubSeq(s, i, i + Len(sub) - 1) = sub

\* a path separator or a character at which the shell ends a word
ShellBoundary(b) ==
    b \in {"/", " ", "\t", "\n", ";", "&", "|", "(", ")", "<", ">", "'", "\""}

\* ".." standing as a path segment: flanked by the ends of the command, path
\* separators or shell boundary characters
ParentSegmentToken(cmd) ==
    \E i \in 1..(Len(cmd) - 1) :
        /\ cmd[i] = "." /\ cmd[i + 1] = "."
        /\ (i = 1 \/ ShellBoundary(cmd[i - 1]))
        /\ (i + 2 > Len(cmd) \/ ShellBoundary(cmd[i + 2]))

\* a white-space separated token that begins with "/" once its quotes are stripped
AbsoluteToken(cmd) ==
    \E i \in 1..Len(Fields(cmd, <<>>)) : HasPrefix(TrimQuotes(Fields(cmd, <<>>)[i]), <<"/">>)

\* the handler refused to run the command: outcome fail with a reason, a nil
\* error, no subprocess and the workspace as it was
Rejected(r) ==
    /\ r.err = "" /\ r.out.Outcome = "fail" /\ r.out.FailureReason.msg # ""
    /\ ~r.sub /\ r.ws = EmptyWorkspace

\* the handler handed the command to sh -c
Executed(r) == r.sub \/ r.err = "exec: start failed"

\* every ".." of the command belongs to an occurrence of "./..."
OnlyDotDotDot(cmd) ==
    \A i \in 1..(Len(cmd) - 1) :
       (cmd[i] = "." /\ cmd[i + 1] = ".") =>
          \E j \in {i - 2, i - 3} :
             j >= 1 /\ j + 4 <= Len(cmd) /\ SubSeq(cmd, j, j + 4) = <<".", "/", ".", ".", ".">>

\* C13: the tool handler rejects the command (outcome fail with a reason, no
\* subprocess) whenever it contains "~", contains ".." as a path-segment
\* token, or has a white-space separated token that begins with "/" after
\* its quotes are stripped; every command containing "../x" is rejected; a
\* command containing "./..." with no other offending token is executed
C13_FilterRejects ==
    (fPc = "ran" /\ TrimSpace(fCmd) # <<>>) =>
       LET cmd == TrimSpace(fCmd)
       IN /\ (Contains(cmd, "~") \/ ParentSegmentToken(cmd) \/ AbsoluteToken(cmd))
                => Rejected(fResult)
          /\ ContainsSub(cmd, <<".", ".", "/", "x">>) => Rejected(fResult)
          /\ (ContainsSub(cmd, <<".", "/", ".", ".", ".">>) /\ OnlyDotDotDot(cmd)
                /\ ~Contains(cmd, "~") /\ ~AbsoluteToken(cmd))
                => (Executed(fResult) /\ ~Rejected(fResult))

\* the same for commands in which no ".." stands next to a redirection
\* operator and every "../x" starts the command or follows one of the
\* characters of isPathTokenBoundary
C13_HoldsAfterCodeBoundaries ==
    (\A i \in 1..(Len(fCmd) - 1) :
        (fCmd[i] = "." /\ fCmd[i + 1] = ".") =>
           /\ (i > 1 => fCmd[i - 1] \notin {"<", ">"})
           /\ (i + 2 <= Len(fCmd) => fCmd[i + 2] \notin {"<", ">"})
           /\ (i > 1 /\ i + 3 <= Len(fCmd) /\ fCmd[i + 2] = "/" /\ fCmd[i + 3] = "x")
                 => isPathTokenBoundary(fCmd[i - 1]))
    => C13_FilterRejects

----------------------------------------------------------------------------
(* C14: an accepted tool command names no path outside the workspace *)

\* the command with its redirection and assignment operators turned into spaces
RECURSIVE SplitOperators(_)
SplitOperators(cmd) ==
    IF cmd = <<>> THEN <<>>
    ELSE <<IF Head(cmd) \in {">", "="} THEN " " ELSE Head(cmd)>> \o SplitOperators(Tail(cmd))

\* the words of the command that can name a file: the white-space separated
\* tokens and what stands after a redirection operator or an "="
PathWords(cmd) ==
    LET f == Fields(SplitOperators(cmd), <<>>)
    IN {TrimQuotes(f[i]) : i \in 1..Len(f)}

\* the word is an absolute path or has ".." as one of its segments
LeavesWorkspace(w) ==
    \/ HasPrefix(w, <<"/">>)
    \/ \E i \in 1..(Len(w) - 1) :
          /\ w[i] = "." /\ w[i + 1] = "."
          /\ (i = 1 \/ w[i - 1] = "/")
          /\ (i + 2 > Len(w) \/ w[i + 2] = "/")

\* C14: a command the tool handler executes names no absolute path and no
\* parent-directory path in any token position, the position after a
\* redirection operator or an "=" included
C14_AcceptedCommandStaysInside ==
    (fPc = "ran" /\ Executed(fResult)) =>
       \A w \in PathWords(TrimSpace(fCmd)) : ~LeavesWorkspace(w)

\* the same for commands without a redirection operator and without "="
C14_HoldsWithoutOperators ==
    (~Contains(fCmd, ">") /\ ~Contains(fCmd, "=")) => C14_AcceptedCommandStaysInside

----------------------------------------------------------------------------
(* C15: failure feedback is in the context before anything else runs *)

FailureKeys == {"last_failure.node_id", "last_failure.node_type", "last_failure.reason",
                "last_failure.at", "last_failure.artifacts", "last_failure.summary"}

\* positions of the StageFailed events of stages that ended with outcome fail
\* (the StageFailed of a handler error is followed by NodeExecutionErrored)
FailedStages(h) ==
    {k \in Positions(h, "events", "StageFailed") : k < Len(h) /\ IsMem(h[k + 1], "ContextUpdated")}

\* the failed stages the running invocation knows of: its own, and those of
\* earlier invocations whose checkpoint was saved
KnownFailures(h) ==
    {k \in FailedStages(h) :
        \/ k > MaxOf(CallStarts(h))
        \/ k + 4 <= Len(h) /\ IsEv(h[k + 4], "CheckpointSaved") /\ h[k + 4].n = h[k].n}

\* the context describes the failed stage recorded at position k
DescribesFailure(ctx, h, k) ==
    /\ FailureKeys \subseteq DOMAIN ctx
    /\ ctx["last_failure.node_id"] = VStr(h[k].n)
    /\ ctx["last_failure.node_type"] = VStr(scenario.Nodes[h[k].n].type)
    /\ ctx["last_failure.reason"].t = "string" /\ ctx["last_failure.reason"].s = h[k].x
    /\ ctx["last_failure.at"].t = "string"
    /\ ctx["last_failure.artifacts"] = VMap(h[k].n)
    /\ ctx["last_failure.summary"] = VStr("failed_node=" \o h[k].n)

\* no stage has ended since the record at position k
NoStageEndedSince(h, k) == \A j \in Positions(h, "events", "StageCompleted") : j < k

\* C15: from the moment a stage has ended with outcome fail, hence before its
\* checkpoint is written and before the handler of the stage that follows it
\* is invoked, and until that stage ends, the six last_failure keys of the
\* context describe the failed stage; its checkpoint carries them
C15_FailureFeedbackSet ==
    (/\ pc # "idle"
     /\ KnownFailures(hist[cfg.RunID]) # {}
     /\ NoStageEndedSince(hist[cfg.RunID], MaxOf(KnownFailures(hist[cfg.RunID])))) =>
       LET h == hist[cfg.RunID]
           k == MaxOf(KnownFailures(h))
       IN /\ DescribesFailure(Context, h, k)
          /\ (k + 4 <= Len(h) /\ IsEv(h[k + 4], "CheckpointSaved")
                /\ \A j \in Positions(h, "events", "CheckpointSaved") : j <= k + 4) =>
                DescribesFailure(jsonUnmarshal(checkpoint[cfg.RunID].Context), h, k)

\* b has failed and the handler of the next stage, fix, is about to be invoked
C15_Witness ==
    /\ scenario.name = "loop" /\ pc = "attempt" /\ current = "fix"
    /\ Invocations(CurrentVisit) = 0
    /\ Context["last_failure.node_id"] = VStr("b")
    /\ status[cfg.RunID]["b"].Outcome = "fail"

----------------------------------------------------------------------------
(* C16: failure feedback stays until the next failure *)

\* one step of an invocation: the stage that ends with outcome fail sets all
\* six last_failure keys to describe itself; every other step, the end of a
\* stage with another outcome included, leaves each of them as it was
FeedbackFrame ==
    (pc # "idle" /\ pc' # "idle") =>
       IF pc = "post" /\ out.Outcome = "fail"
       THEN /\ FailureKeys \subseteq DOMAIN Context'
            /\ Context'["last_failure.node_id"] = VStr(current)
            /\ Context'["last_failure.node_type"] = VStr(scenario.Nodes[current].type)
            /\ Context'["last_failure.reason"] = ReasonValue(out.FailureReason)
            /\ Context'["last_failure.artifacts"] = VMap(current)
            /\ Context'["last_failure.summary"] = VStr("failed_node=" \o current)
       ELSE \A k \in FailureKeys :
               /\ (k \in DOMAIN Context) <=> (k \in DOMAIN Context')
               /\ k \in DOMAIN Context => Context'[k] = Context[k]

\* C16: a stage that does not end with outcome fail leaves every
\* last_failure key of the context unchanged, and the next stage that ends
\* with outcome fail overwrites all of them
C16_FeedbackPersists == [][FeedbackFrame]_vars

\* the same for stages whose context_updates name no last_failure key
C16_HoldsWithoutReservedUpdates ==
    [][(pc = "post" => DOMAIN out.ContextUpdates \cap FailureKeys = {}) => FeedbackFrame]_vars

----------------------------------------------------------------------------
(* C17: the unfixable-failure-source guard *)

\* the *.sh paths of the command of node f that no entry of the allowlist of
\* node id covers
UncoveredScripts(f, id) ==
    LET paths == extractToolScriptPaths(TrimSpace(scenario.Nodes[f].tool_command))
        allowed == ParseAllowedWritePaths(scenario.Nodes[id])[1]
    IN {i \in 1..Len(paths) : \A e \in 1..Len(allowed) : ~EntryMatches(allowed[e], paths[i])}

\* a codergen node with a write allowlist is about to execute and the context
\* names as the last failure a node f with scripts outside that allowlist
AboutToFix(f) ==
    /\ pc = "loop" /\ current \in NodeIds(scenario)
    /\ StagesStarted(cfg.RunID) < MaxStages
    /\ resolveHandler(scenario.Nodes[current]) = "codergen"
    /\ Len(scenario.Nodes[current].allowed_write_paths) > 0
    /\ "last_failure.node_id" \in DOMAIN Context
    /\ Context["last_failure.node_id"] = VStr(f)
    /\ f \in NodeIds(scenario)
    /\ UncoveredScripts(f, current) # {}

\* the stage is refused: the run returns the unfixable_failure_source error,
\* no handler was invoked, and status files, workspace and checkpoint are as before
StageRefused ==
    /\ pc' = "idle" /\ ret'.kind = "error" /\ ret'.err = "unfixable_failure_source"
    /\ Len(hist'[cfg.RunID]) >= Len(hist[cfg.RunID])
    /\ \A k \in (Len(hist[cfg.RunID]) + 1)..Len(hist'[cfg.RunID]) :
          hist'[cfg.RunID][k].f \notin {"call", "file"}
    /\ status' = status /\ workspace' = workspace /\ checkpoint' = checkpoint
    /\ checkpoint[cfg.RunID].LastCompletedNode # current

\* C17: the step of a codergen node with a non-empty allowlist, when the
\* context names as last failure a tool node whose command references a *.sh
\* path outside that allowlist, ends the run with an error containing
\* unfixable_failure_source; the handler is not invoked, nothing is written
\* for the node, the workspace is unchanged and the checkpoint still names the
\* node completed before
C17_UnfixableSourceAborts ==
    [][\A f \in AllIds :
          (AboutToFix(f) /\ resolveHandler(scenario.Nodes[f]) = "tool"
             /\ pc' # "loop" /\ ret'.kind # "crash") => StageRefused]_vars

\* the same for failed tool nodes that carry the attribute type=tool
C17_HoldsForTypedToolNodes ==
    [][\A f \in AllIds :
          (AboutToFix(f) /\ scenario.Nodes[f].type = "tool"
             /\ pc' # "loop" /\ ret'.kind # "crash") => StageRefused]_vars

\* the typed tool node t failed and the fix stage was refused
C17_Refused ==
    /\ scenario.name = "unfixable" /\ pc = "idle"
    /\ ret.err = "unfixable_failure_source"
    /\ checkpoint["r1"].LastCompletedNode = "t"
    /\ ~status["r1"]["fix"].exists


----------------------------------------------------------------------------
(* C18: hiding and restoring leaves the workspace as it was *)

Returned == hPc = "returned"
Reverse(q) == [i \in 1..Len(q) |-> q[Len(q) + 1 - i]]

\* C18: for any block list, with or without the strict-read-scope list after
\* it, and any agent that created no blocked path again: once Run has called
\* restoreWorkspacePaths and returned, the workspace holds exactly the
\* entries, at the same paths, that it held before hideWorkspacePaths.
C18_RestoreReverses ==
    (Returned /\ hFs.calls > 0 /\ hLog.recreated = {}) => hFs.ws = hIn.ws

\* a nested entry hidden by the block list and then its parent hidden by the
\* strict read scope, both back in place after the agent succeeded
C18_Witness ==
    /\ Returned /\ hLog.exit = "success" /\ hLog.recreated = {}
    /\ hIn.strict
    /\ hHidden = <<hiddenPath(<<"a", "x">>, 1), hiddenPath(<<"a">>, 2)>>
    /\ hFs.moved = << <<"a", "x">>, <<"a">> >>
    /\ hFs.restored = << <<"a">>, <<"a", "x">> >>
    /\ hFs.ws = hIn.ws

----------------------------------------------------------------------------
(* C19: restoration on every exit path, in reverse order *)

\* every entry moved away has been moved back, or a restoreWorkspacePaths
\* call that had it in its list has stopped with an error
RestoreAttempted ==
    \/ SeqToSet(hFs.moved) = SeqToSet(hFs.restored)
    \/ hFs.calls > 0 /\ hLog.restoreErr # ""

RestoredInReverse ==
    hFs.restored = SubSeq(Reverse(hFs.moved), 1, Len(hFs.restored))

\* C19: once an entry has been hidden, every way of leaving codexAgent.Run
\* attempts the restoration, and entries are moved back in the reverse of
\* the order in which they were moved away.
C19_RestoreOnEveryExit ==
    (Returned /\ hFs.moved # <<>>) => (RestoreAttempted /\ RestoredInReverse)

\* what holds of the code: the exits after the first hideWorkspacePaths call
\* has returned without error, and the refused rename, restore in reverse
C19_HoldsUnlessStatFails ==
    (Returned /\ hFs.moved # <<>> /\ hFs.err \notin {"ENOTDIR"})
        => (RestoreAttempted /\ RestoredInReverse)

\* Run returned the error of os.Stat and left an entry in the hidden directory
C19_LeftHidden ==
    /\ Returned /\ hFs.err = "ENOTDIR"
    /\ hFs.moved = << <<"a">> >> /\ hFs.restored = <<>> /\ hFs.calls = 0
    /\ ~Exists(hFs.ws, <<"a">>) /\ Exists(hIn.ws, <<"a">>)

----------------------------------------------------------------------------
(* C20: a blocked path that was created again *)

\* C20: when the agent created blocked paths again, restoreWorkspacePaths
\* returns the error that names such a path, what the agent put at those
\* paths is still there, and the hidden entries are still in their hidden
\* directory.
C20_RecreatedPathIsKept ==
    (Returned /\ hLog.exit # "" /\ hLog.recreated # {}) =>
        /\ \E p \in hLog.recreated : hLog.restoreErr = RecreatedErr(p)
        /\ \A p \in hLog.recreated :
              /\ Exists(hFs.ws, p) /\ EntryAt(hFs.ws, p).by = "agent"
              /\ \E i \in 1..Len(hHidden) :
                    /\ hHidden[i].original = p
                    /\ Exists(hFs.base[hHidden[i].base], p)
                    /\ EntryAt(hFs.base[hHidden[i].base], p).by = "user"

\* the agent created the hidden a/x again; the restore fails on it after
\* moving back f, which was hidden later
C20_Witness ==
    /\ Returned /\ hLog.recreated = {<<"a", "x">>}
    /\ hLog.restoreErr = RecreatedErr(<<"a", "x">>)
    /\ hFs.moved = << <<"a", "x">>, <<"f">> >> /\ hFs.restored = << <<"f">> >>
    /\ EntryAt(hFs.ws, <<"a", "x">>).by = "agent"
    /\ Exists(hFs.base[1], <<"a", "x">>)

----------------------------------------------------------------------------
(* C21: no successful response while an entry is still hidden *)

\* the error codexAgent.Run returns: that of hideWorkspacePaths or of
\* strictReadScopeBlockedPaths, or that of the return statement taken after
\* the deferred restore was registered; the deferred function has no access
\* to the results of Run, which are unnamed
RunErr ==
    IF hLog.exit = "" THEN hFs.err
    ELSE IF hLog.exit = "success" THEN ""
    ELSE "codex: " \o hLog.exit

StillHidden == SeqToSet(hFs.moved) \ SeqToSet(hFs.restored)

\* C21: when codexAgent.Run returns without error, every entry that was
\* hidden is back at its original path; a failed restore makes Run return an
\* error.
C21_NoSuccessWhileHidden ==
    (Returned /\ RunErr = "") => (StillHidden = {} /\ hLog.restoreErr = "")

\* what holds of the code: a response returned without error after the agent
\* created no blocked path again leaves nothing hidden
C21_HoldsUnlessRecreated ==
    (Returned /\ RunErr = "" /\ hLog.recreated = {}) =>
        (StillHidden = {} /\ hLog.restoreErr = "")

\* Run returned the agent's response without error, the restore had failed
\* on the recreated a/x and a/x is still in the hidden directory
C21_SuccessWithHidden ==
    /\ Returned /\ hLog.exit = "success" /\ RunErr = ""
    /\ hLog.restoreErr = RecreatedErr(<<"a", "x">>)
    /\ <<"a", "x">> \in StillHidden

----------------------------------------------------------------------------
(* The verification handler: plan parsing, allowlist matching, execution *)

\* strings.Index: the first position of sub in s, 0 when there is none
IndexOf(s, sub) ==
    LET hits == {i \in 1..(Len(s) - Len(sub) + 1) : SubSeq(s, i, i + Len(sub) - 1) = sub}
    IN IF hits = {} THEN 0 ELSE CHOOSE i \in hits : \A j \in hits : i <= j

RECURSIVE JoinFields(_)
\* strings.Join(fields, " ")
JoinFields(f) ==
    IF f = <<>> THEN <<>>
    ELSE IF Len(f) = 1 THEN f[1]
    ELSE f[1] \o <<" ">> \o JoinFields(Tail(f))

\* the backquote character, which cannot be written in a string of this module
Backquote == "backquote"

\* the tokens hasUnsafeShellSyntax looks for
UnsafeTokens == {<<"&", "&">>, <<"|", "|">>, <<";">>, <<"|">>, <<Backquote>>, <<"$", "(">>,
                 <<">">>, <<"<">>, <<"\n">>, <<"\r">>}

\* hasUnsafeShellSyntax without the token ";"
hasUnsafeShellSyntax_noSemicolon(command) ==
    \E t \in UnsafeTokens \ {<<";">>} : IndexOf(TrimSpace(command), t) > 0

hasUnsafeShellSyntax(command) ==
    \E t \in UnsafeTokens : IndexOf(TrimSpace(command), t) > 0

\* the letters and digits among the characters of the model
Letters == {"A", "a", "c", "d", "e", "g", "h", "o", "p", "r", "t", "x"}
Digits == {"1"}

isEnvAssignmentToken(tok) ==
    /\ tok # <<>>
    /\ ~HasPrefix(tok, <<"=">>)
    /\ ~HasSuffix(tok, <<"=">>)
    /\ IndexOf(tok, <<"=">>) > 1
    /\ LET eq == IndexOf(tok, <<"=">>)
       IN /\ tok[1] \in Letters \cup {"_"}
          /\ \A i \in 2..(eq - 1) : tok[i] \in Letters \cup Digits \cup {"_"}

RECURSIVE LeadingEnv(_)
\* the number of leading fields that are environment assignments
LeadingEnv(fields) ==
    IF fields # <<>> /\ isEnvAssignmentToken(Head(fields)) THEN 1 + LeadingEnv(Tail(fields))
    ELSE 0

RECURSIVE trimWrappingParens(_)
trimWrappingParens(c) ==
    LET cmd == TrimSpace(c)
    IN IF Len(cmd) >= 2 /\ HasPrefix(cmd, <<"(">>) /\ HasSuffix(cmd, <<")">>)
            /\ TrimSpace(SubSeq(cmd, 2, Len(cmd) - 1)) # <<>>
       THEN trimWrappingParens(SubSeq(cmd, 2, Len(cmd) - 1))
       ELSE cmd

stripLeadingEnvAssignments(cmd) ==
    LET fields == Fields(cmd, <<>>)
        i == LeadingEnv(fields)
    IN IF i = 0 THEN cmd ELSE JoinFields(SubSeq(fields, i + 1, Len(fields)))

stripLeadingShellWrappers(cmd) ==
    LET trimmed == TrimSpace(cmd)
        idx == IndexOf(trimmed, <<"&", "&">>)
    IN IF (HasPrefix(trimmed, <<"e", "x", "p", "o", "r", "t", " ">>)
             \/ HasPrefix(trimmed, <<"c", "d", " ">>)) /\ idx > 0
       THEN TrimSpace(SubSeq(trimmed, idx + 2, Len(trimmed)))
       ELSE cmd

RECURSIVE normalizeFrom(_)
\* the loop of normalizeCommandForAllowlist
normalizeFrom(cmd) ==
    LET next == TrimSpace(stripLeadingShellWrappers(
                    stripLeadingEnvAssignments(trimWrappingParens(cmd))))
    IN IF next = cmd THEN cmd ELSE normalizeFrom(next)

normalizeCommandForAllowlist(command) == normalizeFrom(TrimSpace(command))

\* the comparison of commandAllowed with the prefixes of the allowlist
MatchesPrefix(cmd, allowedPrefixes) ==
    \E k \in 1..Len(allowedPrefixes) :
        LET p == TrimSpace(allowedPrefixes[k])
        IN p # <<>> /\ (cmd = p \/ HasPrefix(cmd, p \o <<" ">>))

\* commandAllowed without the test for unsafe shell syntax
commandAllowed_noShellTest(command, allowedPrefixes) ==
    MatchesPrefix(normalizeCommandForAllowlist(command), allowedPrefixes)

commandAllowed(command, allowedPrefixes) ==
    /\ ~hasUnsafeShellSyntax(command)
    /\ MatchesPrefix(normalizeCommandForAllowlist(command), allowedPrefixes)

\* parseVerificationCommand: the error, or the executable with its
\* arguments and the environment assignments put before it
parseVerificationCommand(c) ==
    LET command == TrimSpace(c)
        fields == Fields(command, <<>>)
        i == LeadingEnv(fields)
        none == [err |-> "", Env |-> <<>>, Name |-> <<>>, Args |-> <<>>]
    IN IF command = <<>> THEN [none EXCEPT !.err = "verification command cannot be empty"]
       ELSE IF hasUnsafeShellSyntax(command)
         THEN [none EXCEPT !.err = "verification command rejected: contains unsafe shell syntax"]
       ELSE IF i >= Len(fields) THEN [none EXCEPT !.err = "verification command missing executable"]
       ELSE [err |-> "", Env |-> SubSeq(fields, 1, i), Name |-> fields[i + 1],
             Args |-> SubSeq(fields, i + 2, Len(fields))]

\* normalizeVerificationPath on the relative paths of the model: the error
hasParentSegment(p) ==
    \E i \in 1..(Len(p) - 1) :
        /\ p[i] = "." /\ p[i + 1] = "."
        /\ (i = 1 \/ p[i - 1] = "/")
        /\ (i + 2 > Len(p) \/ p[i + 2] = "/")

normalizeVerificationPathErr(f) ==
    IF TrimSpace(f) = <<>> THEN "path is empty"
    ELSE IF Contains(TrimSpace(f), "~") THEN "~ is not allowed"
    ELSE IF hasParentSegment(TrimSpace(f)) THEN "parent path segments are not allowed"
    ELSE ""

\* parseVerificationPlan: the error, and the plan with trimmed commands
parseVerificationPlan(plan) ==
    IF \E i \in 1..Len(plan.files) : normalizeVerificationPathErr(plan.files[i]) # ""
      THEN [err |-> "invalid verification file path", plan |-> plan]
    ELSE IF \E i \in 1..Len(plan.commands) : TrimSpace(plan.commands[i]) = <<>>
      THEN [err |-> "verification command cannot be empty", plan |-> plan]
    ELSE IF plan.commands = <<>>
      THEN [err |-> "verification plan must contain at least one command", plan |-> plan]
    ELSE [err |-> "",
          plan |-> [plan EXCEPT !.files = [i \in 1..Len(plan.files) |-> TrimSpace(plan.files[i])],
                                !.commands = [i \in 1..Len(plan.commands) |->
                                                 TrimSpace(plan.commands[i])]]]

VerifyFail(r, reason) == [r EXCEPT !.outcome = "fail", !.reason = reason]

CommandFailed(command, exitCode) == <<"verification command failed", command, exitCode>>
NotAllowed(command) == <<"verification command not allowed", command>>

\* what exec.Command(parsed.Name, parsed.Args...) with cmd.Env starts
Started(command, parsed, exitCode) ==
    [command |-> command, name |-> parsed.Name, args |-> parsed.Args, env |-> parsed.Env,
     exit |-> exitCode]

CommandResult(command, exitCode) == [command |-> command, exit_code |-> exitCode]

RECURSIVE runCommands(_, _, _, _, _)
\* the loop over plan.Commands; exits[i] is the exit code of the i-th command
\* of the plan, -1 when cmd.Start fails
runCommands(r, commands, allowedPrefixes, exits, i) ==
    IF i > Len(commands)
      THEN [r EXCEPT !.outcome = "success", !.resultsFile = TRUE]
    ELSE LET command == commands[i]
             parsed == parseVerificationCommand(command)
         IN IF validateToolCommand(command) # ""
              THEN VerifyFail(r, <<validateToolCommand(command)>>)
            ELSE IF ~commandAllowed(command, allowedPrefixes)
              THEN VerifyFail(r, NotAllowed(command))
            ELSE IF parsed.err # "" THEN VerifyFail(r, <<parsed.err>>)
            ELSE IF exits[i] = -1
              THEN [r EXCEPT !.err = "exec: start failed",
                             !.ran = Append(r.ran, Started(command, parsed, -1))]
            ELSE LET done == [r EXCEPT !.ran = Append(r.ran, Started(command, parsed, exits[i])),
                                        !.results = Append(r.results,
                                                           CommandResult(command, exits[i]))]
                 IN IF exits[i] # 0
                      THEN [VerifyFail(done, CommandFailed(command, exits[i]))
                              EXCEPT !.resultsFile = TRUE]
                    ELSE runCommands(done, commands, allowedPrefixes, exits, i + 1)

\* verificationHandler.Execute with verification.workdir unset
verificationExecute(in) ==
    LET r0 == NoVerifyResult
        parsed == parseVerificationPlan(in.plan)
        plan == parsed.plan
        missing == {i \in 1..Len(plan.files) : plan.files[i] \notin in.present}
    IN IF ~in.plan.hasPlan THEN VerifyFail(r0, <<"verification plan missing in context key">>)
       ELSE IF parsed.err # "" THEN VerifyFail(r0, <<parsed.err>>)
       ELSE LET r1 == [r0 EXCEPT !.planFile = TRUE]
            IN IF in.allowed = <<>>
                 THEN VerifyFail(r1, <<"verification.allowed_commands is required">>)
               ELSE IF missing # {}
                 THEN VerifyFail(r1, <<"required file missing",
                                       plan.files[CHOOSE i \in missing : \A j \in missing : i <= j]>>)
               ELSE runCommands(r1, plan.commands, in.allowed, in.exits, 1)

----------------------------------------------------------------------------
(* Verification harness: verificationHandler.Execute on plans *)

CmdG == <<"g">>
CmdGG == <<"g", " ", "g">>
CmdH == <<"h">>
CmdUnsafe == <<"g", ";", "h">>
CmdEnvG == <<"A", "=", "1", " ", "g">>
FileF == <<"f">>
FileM == <<"m">>

\* the commands of the plans: allowlisted, not allowlisted, with unsafe shell
\* syntax, with an environment assignment before an allowlisted command
PlanCommands == {CmdG, CmdH, CmdUnsafe, CmdEnvG}
\* the exit codes of the commands that start; StartFails marks cmd.Start failing
ExitCodes == {0, 1}
StartFails == -1

VerifyInput(hasPlan, files, commands, allowed, present, exits, pieces) ==
    [plan |-> [hasPlan |-> hasPlan, files |-> files, commands |-> commands],
     allowed |-> allowed, present |-> present, exits |-> exits, pieces |-> pieces]

\* any plan of up to MaxPlan commands, with files that exist or not, a node
\* with or without verification.allowed_commands, a context with or without
\* the plan
InitVerify ==
    /\ \E n \in 0..MaxPlan :
       \E commands \in [1..n -> PlanCommands] :
       \E exits \in [1..n -> ExitCodes \cup {StartFails}] :
       \E files \in {<<>>, <<FileF>>, <<FileF, FileM>>} :
       \E present \in {{}, {FileF}, {FileF, FileM}} :
       \E allowed \in {<<>>, <<CmdG>>} :
       \E hasPlan \in BOOLEAN :
          /\ (~hasPlan => n = 0 /\ files = <<>>)
          /\ vIn = VerifyInput(hasPlan, files, commands, allowed, present, exits, 0)
    /\ vOut = NoVerifyResult
    /\ vPc = "input"

\* the pieces verification commands are put together from: a word, a blank,
\* a tab, an environment assignment with the blank after it, parentheses,
\* two unsafe tokens, the cd wrapper and a line feed
Pieces == {<<"g">>, <<" ">>, <<"\t">>, <<"A", "=", "1", " ">>, <<"(">>, <<")">>, <<";">>,
           <<"&", "&">>, <<"c", "d", " ">>, <<"\n">>}

\* a plan whose last command is still to be put together, alone or after an
\* allowlisted command that exits with 0 or 1 or cannot be started
InitCommand ==
    /\ \E first \in {<<>>, <<CmdG>>} :
       \E e \in ExitCodes \cup {StartFails} :
       \E allowed \in {<<CmdG>>, <<CmdGG>>} :
          /\ (first = <<>> => e = 0)
          /\ vIn = VerifyInput(TRUE, <<>>, first \o << <<>> >>, allowed, {},
                               [i \in 1..(Len(first) + 1) |-> IF i <= Len(first) THEN e ELSE 0], 0)
    /\ vOut = NoVerifyResult
    /\ vPc = "input"

\* one more piece of the last command of the plan
AddPiece ==
    /\ vPc = "input"
    /\ vIn.pieces < MaxPieces
    /\ \E p \in Pieces :
          vIn' = [vIn EXCEPT !.plan.commands[Len(vIn.plan.commands)] = @ \o p,
                             !.pieces = @ + 1]
    /\ UNCHANGED <<vOut, vPc>>

\* the verification stage runs
ExecuteVerify ==
    /\ vPc = "input"
    /\ vOut' = verificationExecute(vIn)
    /\ vPc' = "ran"
    /\ UNCHANGED vIn

InitPlans == EngineIdle /\ RouteOff /\ FilterOff /\ HideOff /\ InitVerify /\ GraphOff /\ PipesOff

NextPlans == ExecuteVerify /\ UNCHANGED <<engineVars, routeVars, filterVars, hideVars, graphVars, pipeVars>>

SpecVerify == InitPlans /\ [][NextPlans]_vars

InitCommands == EngineIdle /\ RouteOff /\ FilterOff /\ HideOff /\ InitCommand /\ GraphOff /\ PipesOff

NextCommands ==
    \/ (AddPiece /\ UNCHANGED <<engineVars, routeVars, filterVars, hideVars, graphVars, pipeVars>>)
    \/ (ExecuteVerify /\ UNCHANGED <<engineVars, routeVars, filterVars, hideVars, graphVars, pipeVars>>)

SpecCommand == InitCommands /\ [][NextCommands]_vars

VerifyRan == vPc = "ran"
\* the commands of the parsed plan, and the commands that were started
ParsedCommands == [i \in 1..Len(vIn.plan.commands) |-> TrimSpace(vIn.plan.commands[i])]
RanCommands == [i \in 1..Len(vOut.ran) |-> vOut.ran[i].command]
LastCommand == vIn.plan.commands[Len(vIn.plan.commands)]

----------------------------------------------------------------------------
(* C22: commands with unsafe shell syntax are never executed *)

\* the command, as given, contains one of the ten tokens
ContainsUnsafe(cmd) == \E t \in UnsafeTokens : ContainsSub(cmd, t)

\* the last command of the plan was started
LastCommandRan == Len(vOut.ran) >= Len(vIn.plan.commands)

\* every command that was started is run as its own executable with the
\* words of the command as arguments, nothing of it being left to a shell
RunWithoutShell ==
    \A i \in 1..Len(vOut.ran) :
        LET r == vOut.ran[i]
            words == Fields(r.command, <<>>)
        IN /\ ~ContainsUnsafe(r.command)
           /\ r.env \o <<r.name>> \o r.args = words
           /\ \A k \in 1..Len(r.env) : isEnvAssignmentToken(r.env[k])

\* C22 as stated: a plan command that contains one of "&&", "||", ";", "|",
\* backquote, "$(", ">", "<", CR, LF is never executed and the stage ends
\* with outcome fail, whatever the allowlist; what runs, runs without a shell.
C22_UnsafeCommandNeverRuns ==
    VerifyRan =>
        /\ ContainsUnsafe(LastCommand) => (~LastCommandRan /\ vOut.outcome = "fail")
        /\ RunWithoutShell

\* C22: a plan command that, its surrounding white space trimmed, contains
\* one of the ten tokens is never executed, and the stage ends with outcome
\* fail unless an earlier command of the plan could not be started, which is
\* a handler error; what runs, runs without a shell.
C22_TrimmedUnsafeCommandNeverRuns ==
    VerifyRan =>
        /\ ContainsUnsafe(TrimSpace(LastCommand)) =>
              /\ ~LastCommandRan
              /\ vOut.outcome = "fail" \/ vOut.err = "exec: start failed"
              /\ vOut.err = "exec: start failed" =>
                    (vOut.ran # <<>> /\ Last(vOut.ran).exit = StartFails
                       /\ Len(vOut.ran) < Len(vIn.plan.commands))
        /\ RunWithoutShell

\* "g ;" begins with the allowlisted "g" followed by a blank: it is rejected
\* after the command before it has run
C22_Witness ==
    /\ VerifyRan
    /\ LastCommand = <<"g", " ", ";">>
    /\ vIn.allowed = <<CmdG>>
    /\ MatchesPrefix(normalizeCommandForAllowlist(LastCommand), vIn.allowed)
    /\ RanCommands = <<CmdG>>
    /\ vOut.outcome = "fail" /\ vOut.reason = NotAllowed(LastCommand)

\* a command with an environment assignment runs as the executable g
C22_WitnessAccepted ==
    /\ VerifyRan /\ vOut.outcome = "success"
    /\ LastCommand = <<"A", "=", "1", " ", "g">>
    /\ Last(vOut.ran).name = <<"g">> /\ Last(vOut.ran).env = << <<"A", "=", "1">> >>

----------------------------------------------------------------------------
(* C23: the allowlist test of a verification command *)

\* the first word of a text that does not begin with white space
FirstWord(t) ==
    IF \E i \in 1..Len(t) : IsSpace(t[i])
    THEN SubSeq(t, 1, (CHOOSE i \in 1..Len(t) :
                          IsSpace(t[i]) /\ \A j \in 1..(i - 1) : ~IsSpace(t[j])) - 1)
    ELSE t

\* a word of the form NAME=value
IsNameValue(w) ==
    \E eq \in 2..(Len(w) - 1) :
        /\ w[eq] = "="
        /\ w[1] \in Letters \cup {"_"}
        /\ \A i \in 2..(eq - 1) : w[i] \in Letters \cup Digits \cup {"_"}
        /\ w[Len(w)] # "="

RECURSIVE WithoutEnvRun(_)
\* the text that follows the leading run of NAME=value words, as written
WithoutEnvRun(c) ==
    LET t == TrimLeft(c)
        w == FirstWord(t)
    IN IF IsNameValue(w) THEN WithoutEnvRun(SubSeq(t, Len(w) + 1, Len(t))) ELSE t

\* the words of a text with one blank between them
SingleSpaced(c) == JoinFields(Fields(c, <<>>))

\* the leading run of NAME=value words taken away; joined: the words that
\* remain are then put one blank apart
WithoutEnv(c, joined) ==
    IF IsNameValue(FirstWord(TrimLeft(c)))
    THEN IF joined THEN SingleSpaced(WithoutEnvRun(c)) ELSE WithoutEnvRun(c)
    ELSE c

\* parentheses around the whole text taken away
WithoutParens(c) ==
    IF Len(c) >= 2 /\ c[1] = "(" /\ c[Len(c)] = ")" /\ TrimSpace(SubSeq(c, 2, Len(c) - 1)) # <<>>
    THEN TrimSpace(SubSeq(c, 2, Len(c) - 1))
    ELSE c

\* a leading "cd ... &&" or "export ... &&" taken away
WithoutWrapper(c) ==
    IF (HasPrefix(c, <<"c", "d", " ">>) \/ HasPrefix(c, <<"e", "x", "p", "o", "r", "t", " ">>))
         /\ ContainsSub(c, <<"&", "&">>)
    THEN TrimSpace(SubSeq(c, IndexOf(c, <<"&", "&">>) + 2, Len(c)))
    ELSE c

RECURSIVE NormalForm(_, _)
\* the three rules applied until none of them changes the text
NormalForm(c, joined) ==
    LET step == TrimSpace(WithoutWrapper(TrimSpace(WithoutEnv(WithoutParens(c), joined))))
    IN IF step = c THEN c ELSE NormalForm(step, joined)

\* the text equals an entry of the allowlist or begins with the entry and a blank
MatchesEntry(c, allowlist) ==
    \E k \in 1..Len(allowlist) :
        c = allowlist[k] \/ (Len(c) > Len(allowlist[k])
                               /\ SubSeq(c, 1, Len(allowlist[k]) + 1) = allowlist[k] \o <<" ">>)

C23_HandlerFollowsAllowlist ==
    (VerifyRan /\ vOut.err = "" /\ Len(vOut.ran) = Len(vIn.plan.commands) - 1
       /\ (vOut.ran = <<>> \/ Last(vOut.ran).exit = 0) /\ TrimSpace(LastCommand) # <<>>)
    => (vOut.reason = NotAllowed(TrimSpace(LastCommand))
          <=> ~commandAllowed(TrimSpace(LastCommand), vIn.allowed))

C23_WitnessNotAllowed ==
    /\ VerifyRan /\ vIn.allowed = <<CmdGG>>
    /\ LastCommand = <<"A", "=", "1", " ", "g">>
    /\ ~commandAllowed(LastCommand, vIn.allowed)
    /\ vOut.outcome = "fail" /\ vOut.reason = NotAllowed(LastCommand)

\* "cd g&&g" has the normal form "g" and is refused
C23_WrapperRefused ==
    /\ VerifyRan /\ vIn.allowed = <<CmdG>>
    /\ LastCommand = <<"c", "d", " ", "g", "&", "&", "g">>
    /\ NormalForm(LastCommand, FALSE) = CmdG
    /\ ~commandAllowed(LastCommand, vIn.allowed)

\* "A=1 g<TAB>g" is allowed by the entry "g g"
C23_TabJoined ==
    /\ VerifyRan /\ vIn.allowed = <<CmdGG>>
    /\ LastCommand = <<"A", "=", "1", " ", "g", "\t", "g">>
    /\ commandAllowed(LastCommand, vIn.allowed)
    /\ LastCommandRan

----------------------------------------------------------------------------
(* C24: files first, commands in plan order, the results file *)

\* the commands that were started and ran to an exit code
CommandsRun == SelectSeq(vOut.ran, LAMBDA r : r.exit # StartFails)

\* what verification.results.json lists; nothing when it was not written
ResultsListed == IF vOut.resultsFile THEN vOut.results ELSE <<>>

\* the files of the plan that are not in the workspace, in plan order
MissingFiles == SelectSeq(vIn.plan.files, LAMBDA f : f \notin vIn.present)

\* no command is started when a file of the plan is missing
FilesBeforeCommands ==
    (vOut.planFile /\ vIn.allowed # <<>> /\ MissingFiles # <<>>) =>
        /\ vOut.ran = <<>>
        /\ vOut.outcome = "fail"
        /\ vOut.reason = <<"required file missing", Head(MissingFiles)>>

\* the commands started are the first commands of the plan, in its order
InPlanOrder ==
    /\ Len(vOut.ran) <= Len(ParsedCommands)
    /\ RanCommands = SubSeq(ParsedCommands, 1, Len(vOut.ran))

\* a non-zero exit code is the last thing that happens
StopsAtFirstFailure ==
    \A i \in 1..Len(vOut.ran) :
        vOut.ran[i].exit > 0 =>
            /\ i = Len(vOut.ran)
            /\ vOut.outcome = "fail"
            /\ vOut.reason = CommandFailed(vOut.ran[i].command, vOut.ran[i].exit)

\* the results file lists the commands that were run with their exit codes
ResultsListCommandsRun ==
    ResultsListed = [i \in 1..Len(CommandsRun) |->
                        [command |-> CommandsRun[i].command, exit_code |-> CommandsRun[i].exit]]

\* the stage ended with the exit code of a command or with all commands done
EndedOnExitCode ==
    \/ vOut.outcome = "success"
    \/ (vOut.ran # <<>> /\ Last(vOut.ran).exit > 0)

\* C24: the files of the plan are checked before any command runs, the
\* commands run in plan order, the first non-zero exit ends the stage with
\* outcome fail and the reason "verification command failed: <cmd> (exit=<n>)",
\* and verification.results.json lists exactly the commands that were run, in
\* order, with their text and exit codes.
C24_FilesThenCommandsThenResults ==
    VerifyRan =>
        /\ FilesBeforeCommands
        /\ InPlanOrder
        /\ StopsAtFirstFailure
        /\ ResultsListCommandsRun

\* all of it holds when the stage ends with a command's exit code or after
\* the last command; the order of the checks holds always
C24_HoldsWhenEndedOnExitCode ==
    VerifyRan =>
        /\ FilesBeforeCommands
        /\ InPlanOrder
        /\ StopsAtFirstFailure
        /\ EndedOnExitCode => ResultsListCommandsRun

\* g ran with exit code 0, h is not on the allowlist: no results file
C24_RanButNotListed ==
    /\ VerifyRan
    /\ ParsedCommands = <<CmdG, CmdH>> /\ vIn.allowed = <<CmdG>>
    /\ CommandsRun # <<>> /\ CommandsRun[1].command = CmdG /\ CommandsRun[1].exit = 0
    /\ vOut.outcome = "fail" /\ vOut.reason = NotAllowed(CmdH)
    /\ ~vOut.resultsFile

\* the second of three commands exits with 1 and the third is not started
C24_StoppedAtSecond ==
    /\ VerifyRan /\ Len(ParsedCommands) = 3 /\ vIn.plan.files = <<FileF>>
    /\ Len(vOut.ran) = 2 /\ vOut.ran[1].exit = 0 /\ vOut.ran[2].exit = 1
    /\ vOut.resultsFile /\ Len(vOut.results) = 2

\* the second file of the plan is missing
C24_FileMissing ==
    /\ VerifyRan /\ vIn.plan.files = <<FileF, FileM>> /\ vIn.present = {FileF}
    /\ vIn.plan.commands # <<>> /\ vIn.allowed # <<>>
    /\ vOut.reason = <<"required file missing", FileM>> /\ vOut.ran = <<>>

----------------------------------------------------------------------------
(* C25: when the allowlist is checked *)

\* the positions of the plan's commands that the allowlist or the test for
\* unsafe shell syntax refuses
Offending == {i \in 1..Len(ParsedCommands) : ~commandAllowed(ParsedCommands[i], vIn.allowed)}

\* C25: the allowlist is checked when the plan is parsed: if a command of the
\* plan fails the allowlist or the shell-safety check, the stage ends with
\* outcome fail and no command of the plan has been executed, the allowlisted
\* commands before the offending one included.
C25_AllowlistCheckedBeforeExecution ==
    (VerifyRan /\ Offending # {}) => (vOut.outcome = "fail" /\ vOut.ran = <<>>)

\* what holds: an offending command and the commands after it are never
\* started, and the stage does not end with success
C25_OffendingCommandNeverStarted ==
    (VerifyRan /\ Offending # {}) =>
        /\ \A i \in Offending : Len(vOut.ran) < i
        /\ vOut.outcome # "success"
        /\ vOut.outcome = "fail" \/ vOut.err = "exec: start failed"

\* two allowlisted commands have run when the third is refused for its ";"
C25_RanBeforeRefusal ==
    /\ VerifyRan
    /\ ParsedCommands = <<CmdG, CmdEnvG, CmdUnsafe>> /\ vIn.allowed = <<CmdG>>
    /\ Offending = {3}
    /\ RanCommands = <<CmdG, CmdEnvG>>
    /\ vOut.outcome = "fail" /\ vOut.reason = NotAllowed(CmdUnsafe)

----------------------------------------------------------------------------
(* Graph harness: ValidateGraph and the handler choice of executeNode on
   arbitrary small graphs *)

\* most edges of a graph given to ValidateGraph
MaxGraphEdges == 2

GraphIds == {"start", "a", "exit"}
\* the ids an edge may name: the three node ids and one that is never declared
Endpoints == <<"start", "a", "exit", "ghost">>

\* the declarations of a node as <<shape, type>>, <<>> for no declaration;
\* a node declared without a shape has the shape box (Node.Shape)
StartKinds == {<<>>, <<"box", "">>, <<"Mdiamond", "">>, <<"Mdiamond", "codergen">>}
MiddleKinds == {<<>>, <<"box", "">>, <<"Mdiamond", "">>, <<"Msquare", "">>, <<"hexagon", "">>,
                <<"parallelogram", "verification">>, <<"box", "verification">>}
ExitKinds == {<<>>, <<"box", "">>, <<"Msquare", "">>, <<"Msquare", "verification">>}

GraphNodes(ks, ka, ke) ==
    LET K == ("start" :> ks) @@ ("a" :> ka) @@ ("exit" :> ke)
    IN [id \in {i \in GraphIds : K[i] # <<>>} |->
          [NodeDefaults EXCEPT !.shape = K[id][1], !.type = K[id][2]]]

\* the edges a graph is built from: every unconditional edge between the
\* endpoints, an edge with a condition outside the allowed set and one with
\* an allowed condition
EdgeChoices ==
    [k \in 1..18 |->
        IF k <= 16 THEN Uncond(Endpoints[((k - 1) \div 4) + 1], Endpoints[((k - 1) % 4) + 1])
        ELSE IF k = 17 THEN Edge("start", "a", "context.foo=true", 0)
        ELSE Edge("a", "exit", "outcome=fail", 0)]

EdgeIndex(e) == CHOOSE k \in 1..Len(EdgeChoices) : EdgeChoices[k] = e

InitGraph ==
    /\ \E ks \in StartKinds : \E ka \in MiddleKinds : \E ke \in ExitKinds :
          gIn = [Nodes |-> GraphNodes(ks, ka, ke), Edges |-> <<>>]
    /\ gOut = NoGraphResult
    /\ gPc = "input"

\* one more edge statement; ValidateGraph does not depend on the order of
\* g.Edges, so the edges are added in the order of EdgeChoices
AddGraphEdge ==
    /\ gPc = "input"
    /\ Len(gIn.Edges) < MaxGraphEdges
    /\ \E k \in 1..Len(EdgeChoices) :
          /\ k >= (IF gIn.Edges = <<>> THEN 1 ELSE EdgeIndex(gIn.Edges[Len(gIn.Edges)]))
          /\ gIn' = [gIn EXCEPT !.Edges = Append(@, EdgeChoices[k])]
    /\ UNCHANGED <<gOut, gPc>>

\* diags := ValidateGraph(g)
Validate ==
    /\ gPc = "input"
    /\ gOut' = [NoGraphResult EXCEPT !.diags = ValidateGraph(gIn)]
    /\ gPc' = "validated"
    /\ UNCHANGED gIn

\* executeNode for a node of a graph that passed validation: the handler
\* resolveHandler picks, the prompt.md of the codergen handler, and the two
\* checks executeNode makes for some nodes only
ExecuteNode ==
    /\ gPc = "validated"
    /\ ~HasErrors(gOut.diags)
    /\ \E id \in NodeIds(gIn) :
          LET node == gIn.Nodes[id]
              h == resolveHandler(node)
          IN \E o \in (IF h \in {"start", "exit"} THEN {"success"} ELSE {"success", "fail"}) :
                gOut' = [diags |-> gOut.diags, node |-> id, handler |-> h, outcome |-> o,
                         prompt |-> (h = "codergen"),
                         guarded |-> isExecutableNode(node),
                         unfixableChecked |-> isCodergenNode(node)]
    /\ gPc' = "executed"
    /\ UNCHANGED gIn

InitGraphs == EngineIdle /\ RouteOff /\ FilterOff /\ HideOff /\ VerifyOff /\ InitGraph /\ PipesOff

NextGraph ==
    \/ (AddGraphEdge /\ UNCHANGED <<engineVars, routeVars, filterVars, hideVars, verifyVars, pipeVars>>)
    \/ (Validate /\ UNCHANGED <<engineVars, routeVars, filterVars, hideVars, verifyVars, pipeVars>>)
    \/ (ExecuteNode /\ UNCHANGED <<engineVars, routeVars, filterVars, hideVars, verifyVars, pipeVars>>)

SpecGraph == InitGraphs /\ [][NextGraph]_vars

Validated == gPc \in {"validated", "executed"}
NodeExecuted == gPc = "executed"

----------------------------------------------------------------------------
(* C26: the defects ValidateGraph reports *)

StartNodes(g) == {id \in NodeIds(g) : g.Nodes[id].shape = "Mdiamond" \/ id = "start"}
ExitNodes(g) == {id \in NodeIds(g) : g.Nodes[id].shape = "Msquare" \/ id \in {"exit", "end"}}
EdgesOf(g) == {g.Edges[i] : i \in 1..Len(g.Edges)}

RECURSIVE PathWithin(_, _, _, _)
\* there is a path of at most k edges from s to n
PathWithin(g, s, n, k) ==
    \/ s = n
    \/ k > 0 /\ \E e \in EdgesOf(g) : e.To = n /\ PathWithin(g, s, e.From, k - 1)

AllowedConditions == {"outcome=success", "outcome=fail", "outcome=retry", "outcome=partial_success"}

\* the six defects of a graph
WrongStartCount(g) == Cardinality(StartNodes(g)) # 1
NoExitNode(g) == ExitNodes(g) = {}
StartHasIncoming(g) == \E e \in EdgesOf(g) : e.To \in StartNodes(g)
ExitHasOutgoing(g) == \E e \in EdgesOf(g) : e.From \in ExitNodes(g)
SomeNodeUnreachable(g) ==
    \E s \in StartNodes(g) : \E n \in NodeIds(g) : ~PathWithin(g, s, n, Len(g.Edges))
BadCondition(g) == \E e \in EdgesOf(g) : e.condition # "" /\ e.condition \notin AllowedConditions

Defective(g) ==
    \/ WrongStartCount(g) \/ NoExitNode(g) \/ StartHasIncoming(g) \/ ExitHasOutgoing(g)
    \/ SomeNodeUnreachable(g) \/ BadCondition(g)

\* every node has a shape and a type the validator supports, and an
\* allowed_write_paths attribute that parses
SupportedHandlers(g) ==
    \A id \in NodeIds(g) :
        /\ g.Nodes[id].shape \in {"Mdiamond", "Msquare", "box", "parallelogram", ""}
        /\ g.Nodes[id].type \in {"", "start", "exit", "codergen", "tool"}
ValidAllowlists(g) == \A id \in NodeIds(g) : ~ParseAllowedWritePaths(g.Nodes[id])[2]

TargetsDeclared(g) == \A e \in EdgesOf(g) : e.To \in NodeIds(g)

\* C26 as stated: ValidateGraph reports an error for each of the six defects,
\* and a graph with none of them, supported handlers and valid allowlists
\* yields no error.
C26_ErrorsIffDefects ==
    Validated =>
        /\ Defective(gIn) => HasErrors(gOut.diags)
        /\ (~Defective(gIn) /\ SupportedHandlers(gIn) /\ ValidAllowlists(gIn))
              => ~HasErrors(gOut.diags)

\* C26: ValidateGraph reports an error for each of the six defects, and a
\* graph with none of them, no edge to an undeclared node, supported handlers
\* and valid allowlists yields no error.
C26_ErrorsIffDefectsOrMissingTarget ==
    Validated =>
        /\ Defective(gIn) => HasErrors(gOut.diags)
        /\ (~Defective(gIn) /\ TargetsDeclared(gIn) /\ SupportedHandlers(gIn)
              /\ ValidAllowlists(gIn))
              => ~HasErrors(gOut.diags)

\* start -> exit with a declared node a that no edge leads to
C26_Witness ==
    /\ Validated
    /\ NodeIds(gIn) = {"start", "a", "exit"} /\ gIn.Edges = <<Uncond("start", "exit")>>
    /\ gIn.Nodes["start"].shape = "Mdiamond" /\ gIn.Nodes["exit"].shape = "Msquare"
    /\ gIn.Nodes["a"].shape = "box" /\ gIn.Nodes["a"].type = ""
    /\ SomeNodeUnreachable(gIn) /\ ~WrongStartCount(gIn) /\ ~NoExitNode(gIn)
    /\ gOut.diags = {<<"unreachable node", "a">>}

\* start -> a -> exit, the second edge with an allowed condition: no error
C26_WitnessValid ==
    /\ Validated
    /\ NodeIds(gIn) = {"start", "a", "exit"}
    /\ gIn.Edges = <<Uncond("start", "a"), Edge("a", "exit", "outcome=fail", 0)>>
    /\ ~Defective(gIn) /\ SupportedHandlers(gIn)
    /\ gOut.diags = {}

\* a graph without any of the six defects whose second edge leads nowhere
C26_MissingTargetOnly ==
    /\ Validated
    /\ ~Defective(gIn) /\ SupportedHandlers(gIn) /\ ValidAllowlists(gIn)
    /\ gOut.diags = {<<"edge target missing", "ghost">>}

----------------------------------------------------------------------------
(* C27: the endpoints of edges *)

SourcesDeclared(g) == \A e \in EdgesOf(g) : e.From \in NodeIds(g)

\* C27: ValidateGraph reports an error for an edge whose target is undefined
\* and for an edge whose source is undefined, so no graph that passes
\* validation has an edge that starts or ends at an id outside the node set.
C27_EndpointsDeclared ==
    Validated =>
        /\ ~TargetsDeclared(gIn) => HasErrors(gOut.diags)
        /\ ~SourcesDeclared(gIn) => HasErrors(gOut.diags)
        /\ ~HasErrors(gOut.diags) => (TargetsDeclared(gIn) /\ SourcesDeclared(gIn))

\* what holds: every undeclared target is reported by name
C27_TargetsDeclared ==
    Validated =>
        /\ \A e \in EdgesOf(gIn) :
              e.To \notin NodeIds(gIn) => <<"edge target missing", e.To>> \in gOut.diags
        /\ ~HasErrors(gOut.diags) => TargetsDeclared(gIn)

\* start -> exit and ghost -> exit: the graph passes validation and the
\* engine executes its start node
C27_UndeclaredSourcePasses ==
    /\ NodeExecuted /\ gOut.node = "start" /\ gOut.diags = {}
    /\ gIn.Edges = <<Uncond("start", "exit"), Uncond("ghost", "exit")>>
    /\ "ghost" \notin NodeIds(gIn)

\* start -> exit and start -> ghost is refused
C27_UndeclaredTargetRefused ==
    /\ Validated
    /\ gIn.Edges = <<Uncond("start", "exit"), Uncond("start", "ghost")>>
    /\ gOut.diags = {<<"edge target missing", "ghost">>}

----------------------------------------------------------------------------
(* C28: a validation error blocks the run before anything is written *)

\* nothing of a run directory exists: no manifest, event, trace or artifact
\* was written, no checkpoint, no status, and the workspace was not created
NothingWritten(rid) ==
    /\ hist[rid] = <<>>
    /\ ~checkpoint[rid].exists
    /\ \A id \in AllIds : ~status[rid][id].exists
    /\ workspace[rid] = EmptyWorkspace

\* C28: when the pipeline has a validation error, every call of RunPipeline
\* returns the error "validation failed" and leaves every run directory
\* without manifest, events, trace, checkpoint, workspace or stage.
C28_ValidationErrorBlocksRun ==
    Defective(scenario) =>
        /\ \A rid \in RunIDs : NothingWritten(rid) /\ StagesStarted(rid) = 0
        /\ pc = "idle"
        /\ calls > 0 => (ret.kind = "error" /\ ret.err = "validation failed")

\* two calls for the pipeline with an unreachable node, the second a resume
C28_Witness ==
    /\ scenario = ScInvalid /\ SomeNodeUnreachable(scenario)
    /\ calls = 2 /\ ret.kind = "error" /\ ret.err = "validation failed" /\ ret.resume
    /\ \A rid \in RunIDs : NothingWritten(rid)

----------------------------------------------------------------------------
(* C29: nodes of type verification *)

VerificationNodes(g) == {id \in NodeIds(g) : g.Nodes[id].type = "verification"}

\* the graph with the type attribute of its verification nodes taken away
WithoutVerificationType(g) ==
    [g EXCEPT !.Nodes = [id \in NodeIds(g) |->
                            IF id \in VerificationNodes(g) THEN [g.Nodes[id] EXCEPT !.type = ""]
                            ELSE g.Nodes[id]]]

\* the graph is valid but for the type of its verification nodes
OtherwiseValid(g) == ~HasErrors(ValidateGraph(WithoutVerificationType(g)))

\* C29: an otherwise valid graph with a node of type verification passes
\* validation with no error, and the engine runs the verification handler for
\* that node, whatever its shape.
C29_VerificationNodeSupported ==
    /\ (Validated /\ VerificationNodes(gIn) # {} /\ OtherwiseValid(gIn))
          => ~HasErrors(gOut.diags)
    /\ (NodeExecuted /\ gOut.node \in VerificationNodes(gIn)) => gOut.handler = "verification"

\* what holds: resolveHandler picks the verification handler for every node
\* of type verification, whatever its shape; but no graph with such a node
\* passes validation, so executeNode is never called for one
C29_VerificationNodeNeverValidated ==
    Validated =>
        /\ \A id \in VerificationNodes(gIn) : resolveHandler(gIn.Nodes[id]) = "verification"
        /\ \A id \in VerificationNodes(gIn) : <<"unsupported handler", id>> \in gOut.diags
        /\ NodeExecuted => VerificationNodes(gIn) = {}

\* start -> a -> exit with a of shape parallelogram and type verification,
\* as in TestVerificationNodeFromPlanContext: the only error is a's type
C29_VerificationNodeRefused ==
    /\ Validated
    /\ gIn.Edges = <<Uncond("start", "a"), Uncond("a", "exit")>>
    /\ VerificationNodes(gIn) = {"a"} /\ gIn.Nodes["a"].shape = "parallelogram"
    /\ OtherwiseValid(gIn)
    /\ gOut.diags = {<<"unsupported handler", "a">>}

----------------------------------------------------------------------------
(* C30: start and exit nodes are structural *)

\* the node is what the engine takes for the start or for an exit
Structural(g, id) == isStart(g, id) \/ isExit(g, id)

\* the stage ran the handler that does nothing: outcome success, no
\* prompt.md, no agent or tool, neither the write-allowlist check nor the
\* check of the unfixable failure source
RanNoOp ==
    /\ gOut.handler \in {"start", "exit"}
    /\ gOut.outcome = "success"
    /\ ~gOut.prompt
    /\ ~gOut.guarded
    /\ ~gOut.unfixableChecked

\* C30: every node the engine recognises as the start or as an exit, by
\* shape or by id alone, is executed by the no-op handler with outcome
\* success: no agent or tool runs, no prompt.md is written, and the node is
\* not subject to the write-allowlist or unfixable-failure-source checks.
C30_StructuralNodesAreNoOps ==
    (NodeExecuted /\ Structural(gIn, gOut.node)) => RanNoOp

\* what holds: the nodes with the shape Mdiamond or Msquare and no type
C30_HoldsForShapesWithoutType ==
    (NodeExecuted /\ gIn.Nodes[gOut.node].type = ""
       /\ gIn.Nodes[gOut.node].shape \in {"Mdiamond", "Msquare"}) => RanNoOp

\* the start node declared as "start;" runs the codergen handler
C30_StartByIdRunsAgent ==
    /\ NodeExecuted /\ gOut.node = "start" /\ gOut.diags = {}
    /\ gIn.Nodes["start"].shape = "box" /\ gIn.Nodes["start"].type = ""
    /\ findStartNode(gIn) = "start"
    /\ gOut.handler = "codergen" /\ gOut.prompt /\ gOut.guarded /\ gOut.unfixableChecked
    /\ gOut.outcome = "fail"

\* the exit node declared as "exit;" runs the codergen handler
C30_ExitByIdRunsAgent ==
    /\ NodeExecuted /\ gOut.node = "exit" /\ isExit(gIn, "exit")
    /\ gIn.Nodes["exit"].shape = "box"
    /\ gOut.handler = "codergen" /\ gOut.prompt

\* the start node of shape Mdiamond and type codergen runs the codergen handler
C30_TypedStartRunsAgent ==
    /\ NodeExecuted /\ gOut.node = "start"
    /\ gIn.Nodes["start"].shape = "Mdiamond" /\ gIn.Nodes["start"].type = "codergen"
    /\ gOut.handler = "codergen"

----------------------------------------------------------------------------
(* C31: the outcome tags that are recorded *)

\* the outcomes recorded in the status.json files, in context["outcome"] and
\* given to selectNext
RecordedOutcomes ==
    UNION {{status[rid][id].Outcome : id \in {n \in AllIds : status[rid][n].exists}} :
             rid \in RunIDs}
    \cup (IF "outcome" \in DOMAIN Context THEN {Context["outcome"].s} ELSE {})
    \cup (IF pc = "route" THEN {out.Outcome} ELSE {})

\* the outcomes the handlers of the pipeline may return
HandlerOutcomes(sc) ==
    {"success", "fail"} \cup sc.agentOutcomes
    \cup {sc.Nodes[id].test_outcome : id \in NodeIds(sc)}
    \cup UNION {SeqToSet(sc.Nodes[id].outcome_sequence) : id \in NodeIds(sc)}

\* C31: the outcome recorded for every completed stage, in status.json, in
\* context["outcome"] and as the input of routing, is one of success, fail,
\* retry, partial_success, whatever the handler returned.
C31_RecordedOutcomeIsTag == RecordedOutcomes \subseteq Tags

\* what holds: the engine records a word outside the four tags only when a
\* handler returned it
C31_HoldsForHandlersReturningTags ==
    /\ HandlerOutcomes(scenario) \subseteq Tags => RecordedOutcomes \subseteq Tags
    /\ RecordedOutcomes \subseteq HandlerOutcomes(scenario) \cup Tags

\* the stage of a completed with the outcome "done" and the run went on to exit
C31_OddOutcomeRecorded ==
    /\ scenario = ScOddOutcome /\ ret.kind = "ok" /\ pc = "idle"
    /\ status[ret.rid]["a"].exists /\ status[ret.rid]["a"].Outcome = "done"
    /\ status[ret.rid]["exit"].exists

----------------------------------------------------------------------------
(* C32: the truth gate requires_tool_success *)

\* executeNode has returned the outcome of a codergen stage that requires a
\* tool node
GatedStageEnded ==
    /\ pc = "status"
    /\ isCodergenNode(scenario.Nodes[current])
    /\ scenario.Nodes[current].requires_tool_success
    /\ scenario.Nodes[current].required_tool_node # ""

\* the required tool node has a status.json with outcome success in the run
\* directory
RequiredToolSucceeded ==
    LET req == scenario.Nodes[current].required_tool_node
    IN /\ req \in AllIds
       /\ status[cfg.RunID][req].exists
       /\ status[cfg.RunID][req].Outcome = "success"

\* C32: a codergen stage with requires_tool_success and required_tool_node T
\* ends with fail whenever T has not completed with success; it ends with
\* success or partial_success only if T completed with success.
C32_NonFailOnlyAfterToolSuccess ==
    GatedStageEnded /\ out.Outcome # "fail" => RequiredToolSucceeded

\* C32 as the code has it: the stage ends with success only if T completed with
\* success; no other outcome of the handler is changed by the gate.
C32_SuccessOnlyAfterToolSuccess ==
    GatedStageEnded /\ out.Outcome = "success" => RequiredToolSucceeded

\* the gate turned a success of the agent into fail
C32_Witness ==
    /\ GatedStageEnded /\ ~RequiredToolSucceeded
    /\ out.Outcome = "fail"
    /\ out.FailureReason = Reason("required tool node not successful: t")

\* the gated stage ended with success after the tool stage succeeded
C32_WitnessPassed == GatedStageEnded /\ RequiredToolSucceeded /\ out.Outcome = "success"

\* the gated stage ended with partial_success after the tool stage failed
C32_PartialAfterToolFailure ==
    /\ GatedStageEnded /\ out.Outcome = "partial_success"
    /\ status[cfg.RunID]["t"].exists /\ status[cfg.RunID]["t"].Outcome = "fail"

----------------------------------------------------------------------------
(* C35: retry is never a final outcome *)

\* every route taken from n to x had an edge from n to x whose condition is
\* not outcome=retry
NoRetryEdgeTaken(g, h) ==
    \A i \in 1..Len(h) :
        IsTr(h[i], "RouteEvaluated") /\ h[i].x # ""
        => \E e \in EdgesOf(g) : /\ e.From = h[i].n /\ e.To = h[i].x
                                 /\ e.condition # "outcome=retry"

\* C35: the final outcome of a stage is never retry: executeNode runs another
\* attempt or converts the last retry into partial_success or fail, so no
\* status.json and no context["outcome"] records retry and no edge with the
\* condition outcome=retry is selected.
C35_FinalOutcomeNeverRetry ==
    /\ pc \in {"status", "post", "checkpoint", "route"} => out.Outcome # "retry"
    /\ "retry" \notin RecordedOutcomes
    /\ \A rid \in RunIDs : NoRetryEdgeTaken(scenario, hist[rid])

\* the last attempt of a asked for a retry, the stage ended with fail and the
\* run took the edge for fail past the edge for retry
C35_Witness ==
    /\ scenario = ScRetryEdge /\ pc = "idle" /\ ret.kind = "ok"
    /\ status[ret.rid]["a"].exists /\ status[ret.rid]["a"].Outcome = "fail"
    /\ status[ret.rid]["a"].FailureReason = Reason("retry_exhausted")
    /\ status[ret.rid]["exit"].exists /\ ~status[ret.rid]["c"].exists

\* the last retry became partial_success
C35_WitnessPartial ==
    /\ scenario = ScPartial /\ pc = "route" /\ current = "a"
    /\ out.Outcome = "partial_success" /\ RetryCount["a"] = 1

----------------------------------------------------------------------------
(* C36: the context keys the engine sets *)

\* executeFrom has merged the context updates of the stage of current and set
\* context["outcome"]
StageCompleted == pc \in {"checkpoint", "route"}

OutcomeKeyOwned ==
    StageCompleted
    => /\ "outcome" \in DOMAIN Context
       /\ Context["outcome"] = VStr(status[cfg.RunID][current].Outcome)

CurrentNodeKeyOwned ==
    StageCompleted
    => /\ "current_node" \in DOMAIN Context
       /\ Context["current_node"] = VStr(current)

\* the context_updates of the stage name a key the engine sets
UpdatesNameOwnedKey == {"outcome", "current_node"} \cap DOMAIN out.ContextUpdates # {}

\* C36: after every completed stage context["outcome"] is the outcome written
\* to the stage's status.json and context["current_node"] is the id of the node
\* just executed, even when the context_updates of the stage contain these keys.
C36_EngineKeysNotOverridden == OutcomeKeyOwned /\ CurrentNodeKeyOwned

\* what holds: context["outcome"] is the outcome of status.json, and
\* context["current_node"] is the node's id unless the updates name that key
C36_OutcomeKeyNotOverridden ==
    /\ OutcomeKeyOwned
    /\ "current_node" \notin DOMAIN out.ContextUpdates => CurrentNodeKeyOwned

\* the stage of a returned updates for both keys: context["outcome"] is the
\* stage's outcome, context["current_node"] is the value of the update
C36_CurrentNodeOverridden ==
    /\ StageCompleted /\ current = "a" /\ UpdatesNameOwnedKey
    /\ Context["outcome"] = VStr("success")
    /\ Context["current_node"] = VStr("exit")

\* the overridden value reached checkpoint.json
C36_OverriddenValueCheckpointed ==
    /\ pc = "route" /\ current = "a"
    /\ checkpoint[cfg.RunID].exists
    /\ checkpoint[cfg.RunID].LastCompletedNode = "a"
    /\ "current_node" \in DOMAIN checkpoint[cfg.RunID].Context
    /\ checkpoint[cfg.RunID].Context["current_node"] = jsonMarshalValue(VStr("exit"))

----------------------------------------------------------------------------
(* C37: an error returned by executeNode *)

\* the errors executeNode returns in the model: those of the handlers and the
\* one of the unfixable-failure-source guard
StageErrors == {"codex exec failed", "exec: start failed", "tool_command required",
                "unfixable_failure_source"}

\* the run directory's records end with the error of the stage of n and the
\* failure of the pipeline
ErroredAt(h, n) ==
    /\ Len(h) >= 4
    /\ IsEv(h[Len(h) - 3], "StageFailed") /\ h[Len(h) - 3].n = n /\ h[Len(h) - 3].x \in StageErrors
    /\ IsTr(h[Len(h) - 2], "NodeExecutionErrored") /\ h[Len(h) - 2].n = n
    /\ IsEv(h[Len(h) - 1], "PipelineFailed") /\ h[Len(h) - 1].x = h[Len(h) - 3].x
    /\ IsTr(h[Len(h)], "PipelineFailed")

\* the step in which executeNode returns an error and RunPipeline returns it
StageErrorStep ==
    /\ pc \in {"loop", "attempt"} /\ pc' = "idle" /\ crashes' = crashes
    /\ ret'.kind = "error" /\ ret'.err \in StageErrors

\* the step of a RunPipeline call with Resume set
ResumeCallStep ==
    /\ calls' = calls + 1
    /\ IF pc' = "idle" THEN ret'.resume ELSE cfg'.Resume

\* the last call ended with the error of a stage
EndedOnStageError ==
    /\ pc = "idle" /\ ret.kind = "error" /\ ret.err \in StageErrors
    /\ \E n \in AllIds : ErroredAt(hist[ret.rid], n)

\* C37: an error of a stage ends the run and leaves the resume state as it
\* was: no status.json is written for the stage, checkpoint.json (last completed
\* node, completed nodes, context) is unchanged, StageFailed and PipelineFailed
\* are recorded, and a later resume starts with the erroring stage.
C37_StageErrorKeepsResumeState ==
    [][ /\ StageErrorStep
           => /\ status' = status
              /\ checkpoint' = checkpoint
              /\ current \notin SeqToSet(checkpoint'[cfg.RunID].CompletedNodes)
                 \/ current \in Completed
              /\ ErroredAt(hist'[cfg.RunID], current)
        /\ EndedOnStageError /\ ResumeCallStep
           => /\ pc' = "loop"
              /\ ErroredAt(hist[ret.rid], current')
      ]_vars

\* a resumed call is about to execute the stage whose error ended the call
\* before it; that stage has no status.json and the checkpoint names the stage
\* completed before it
C37_Witness ==
    /\ pc = "loop" /\ cfg.Resume /\ calls = 2
    /\ ret.kind = "error" /\ ret.err \in StageErrors
    /\ ~status[cfg.RunID][current].exists
    /\ checkpoint[cfg.RunID].exists
    /\ checkpoint[cfg.RunID].LastCompletedNode # current
    /\ current \notin SeqToSet(checkpoint[cfg.RunID].CompletedNodes)
    /\ \E i \in 1..Len(hist[cfg.RunID]) :
          /\ IsTr(hist[cfg.RunID][i], "NodeExecutionErrored")
          /\ hist[cfg.RunID][i].n = current

----------------------------------------------------------------------------
(* C39: the unfixable-failure-source guard and the age of the failure *)

\* the last call was aborted by the guard
AbortedByGuard ==
    pc = "idle" /\ ret.kind = "error" /\ ret.err = "unfixable_failure_source"

\* the stage completed last before the abort
StageBeforeAbort == checkpoint[ret.rid].LastCompletedNode

\* some stage of a node of type tool ended with fail in the run directory
SomeToolStageFailed(rid) ==
    \E i \in 1..Len(hist[rid]) :
        /\ IsEv(hist[rid][i], "StageFailed")
        /\ hist[rid][i].n \in NodeIds(scenario)
        /\ scenario.Nodes[hist[rid][i].n].type = "tool"

C39_GuardFiresAfterSomeToolFailure ==
    AbortedByGuard => checkpoint[ret.rid].exists /\ SomeToolStageFailed(ret.rid)

\* t failed, a succeeded after it, and the run was aborted at fix
C39_AbortAfterSuccessfulStage ==
    /\ scenario = ScStaleFailure /\ AbortedByGuard
    /\ ErroredAt(hist[ret.rid], "fix")
    /\ StageBeforeAbort = "a"
    /\ status[ret.rid]["a"].Outcome = "success"
    /\ status[ret.rid]["t"].Outcome = "fail"

\* the abort directly after the failing tool stage
C39_AbortAfterFreshFailure ==
    /\ scenario = ScUnfixable /\ AbortedByGuard
    /\ StageBeforeAbort = "t" /\ status[ret.rid]["t"].Outcome = "fail"

----------------------------------------------------------------------------
(* C40: termination of a run on a graph without cycles *)

\* no node of g is reachable from itself over one edge or more
Acyclic(g) ==
    \A e \in EdgesOf(g) : ~PathWithin(g, e.To, e.From, Cardinality(NodeIds(g)))

\* the pipelines that pass validation and have no cycle
AcyclicPipelines == {sc \in Scenarios : Acyclic(sc) /\ ~HasErrors(ValidateGraph(sc))}

AcyclicValidated == scenario \in AcyclicPipelines

\* the pipelines of the termination check; loop has a cycle
TerminationScenarios == {ScLinear, ScRetry, ScExhaust, ScRoute, ScToolGate, ScRetryEdge,
                         ScLoop}

InitTermination == Init /\ scenario \in TerminationScenarios

\* the steps of executeFrom and executeNode; RunPipeline runs them one after
\* the other in a single goroutine, and every handler invocation returns
Progress ==
    (BeginStage \/ Attempt \/ WriteStatus \/ AfterStatus \/ WriteCheckpoint \/ RouteStep)
    /\ UNCHANGED harnessVars

SpecTermination == InitTermination /\ [][Next]_vars /\ WF_vars(Progress)

RECURSIVE LastCallStart(_, _)
\* the position of the last SessionInitialized record at or before k
LastCallStart(h, k) ==
    IF k = 0 THEN 0
    ELSE IF IsTr(h[k], "SessionInitialized") THEN k
    ELSE LastCallStart(h, k - 1)

\* the stages of node n started by the last call of RunPipeline
VisitsInCall(h, n) ==
    {i \in (LastCallStart(h, Len(h)) + 1)..Len(h) : IsEv(h[i], "StageStarted") /\ h[i].n = n}

StagesInCall(h) ==
    {i \in (LastCallStart(h, Len(h)) + 1)..Len(h) : IsEv(h[i], "StageStarted")}

\* the last call reached executeFrom and returned from it, not by the
\* test-stop hook
CallReturned ==
    /\ pc = "idle" /\ ret.kind \in {"ok", "error"} /\ ret.err # "test_stop"
    /\ \E i \in (LastCallStart(hist[ret.rid], Len(hist[ret.rid])) + 1)..Len(hist[ret.rid]) :
          IsEv(hist[ret.rid][i], "PipelineStarted")

EndedAtExit ==
    /\ ret.kind = "ok"
    /\ checkpoint[ret.rid].exists
    /\ isExit(scenario, checkpoint[ret.rid].LastCompletedNode)

EndedWithNoRoute ==
    /\ ret.kind = "error"
    /\ \E n \in NodeIds(scenario) : \E o \in Tags \cup HandlerOutcomes(scenario) :
          ret.err = NoRouteMsg(n, o)

EndedWithStageError == ret.kind = "error" /\ ret.err \in StageErrors

VisitedAtMostOnce ==
    \A rid \in RunIDs :
        /\ \A n \in AllIds : Cardinality(VisitsInCall(hist[rid], n)) <= 1
        /\ Cardinality(StagesInCall(hist[rid])) <= Cardinality(NodeIds(scenario))

Terminates == (pc # "idle" /\ AcyclicValidated) ~> (pc = "idle")

C40_WitnessNoRoute == AcyclicValidated /\ CallReturned /\ EndedWithNoRoute

\* a run on a graph without cycles ended with the error of a handler
C40_EndedWithHandlerError ==
    /\ AcyclicValidated /\ CallReturned /\ EndedWithStageError
    /\ ~EndedAtExit /\ ~EndedWithNoRoute

\* on the graph with a cycle a node was visited twice by one call
C40_CycleVisitedTwice ==
    /\ scenario = ScLoop
    /\ Cardinality(VisitsInCall(hist["r1"], "b")) = 2

----------------------------------------------------------------------------
(* Subprocess harness: a subprocess writing to two pipes, run by
   toolHandler.Execute or by codexAgent.Run *)

\* the most writes a subprocess makes, the capacity of a pipe in writes, and
\* the most ticks of the heartbeat ticker
MaxOutput == 4
PipeCap == 2
MaxTicks == 2

RECURSIVE Scripts(_)
\* the sequences of at most n writes, each to one of the two streams
Scripts(n) ==
    IF n = 0 THEN {<<>>}
    ELSE Scripts(n - 1)
         \cup {Append(w, s) : w \in {v \in Scripts(n - 1) : Len(v) = n - 1}, s \in Streams}

RECURSIVE Written(_, _)
\* the number of writes of the script that go to stream s
Written(script, s) ==
    IF script = <<>> THEN 0
    ELSE (IF Head(script) = s THEN 1 ELSE 0) + Written(Tail(script), s)

\* cmd.Start has returned; codexAgent.Run has also started the heartbeat
\* goroutine and the two readers
InitPipes(mode) ==
    /\ xIn \in [mode : {mode}, script : Scripts(MaxOutput)]
    /\ xProc = [todo |-> xIn.script, exited |-> FALSE]
    /\ xPipe = NoPipes
    /\ xRead = [s \in Streams |-> [state |-> IF mode = "agent" THEN "reading" ELSE "off",
                                   got |-> 0]]
    /\ xMain = [pc |-> IF mode = "agent" THEN "wait" ELSE "readout", result |-> ""]
    /\ xBeat = IF mode = "agent" THEN [NoBeat EXCEPT !.state = "select"] ELSE NoBeat

\* the subprocess writes to a stream; the write blocks while the pipe is full
SubprocessWrite ==
    /\ ~xProc.exited /\ xProc.todo # <<>>
    /\ xPipe[Head(xProc.todo)].buf < PipeCap
    /\ xPipe' = [xPipe EXCEPT ![Head(xProc.todo)].buf = @ + 1]
    /\ xProc' = [xProc EXCEPT !.todo = Tail(@)]
    /\ UNCHANGED <<xIn, xRead, xMain, xBeat>>

\* the subprocess ends with exit code 0 after its last write; its ends of the
\* pipes are closed
SubprocessExit ==
    /\ ~xProc.exited /\ xProc.todo = <<>>
    /\ xProc' = [xProc EXCEPT !.exited = TRUE]
    /\ UNCHANGED <<xIn, xPipe, xRead, xMain, xBeat>>

\* one Read of io.ReadAll on stream s by toolHandler.Execute: the bytes in the
\* pipe, or end-of-file once the subprocess has exited; it blocks otherwise
ReadAll(s, here, next) ==
    /\ xMain.pc = here
    /\ IF xPipe[s].buf > 0
       THEN /\ xRead' = [xRead EXCEPT ![s].got = @ + xPipe[s].buf]
            /\ xPipe' = [xPipe EXCEPT ![s].buf = 0]
            /\ UNCHANGED xMain
       ELSE /\ xProc.exited
            /\ xMain' = [xMain EXCEPT !.pc = next]
            /\ UNCHANGED <<xPipe, xRead>>
    /\ UNCHANGED <<xIn, xProc, xBeat>>

\* outB, _ := io.ReadAll(stdout)
ReadAllStdout == ReadAll("stdout", "readout", "readerr")

\* errB, _ := io.ReadAll(stderr)
ReadAllStderr == ReadAll("stderr", "readerr", "wait")

\* err := cmd.Wait() of toolHandler.Execute and the return of the handler
ToolWait ==
    /\ xMain.pc = "wait" /\ xIn.mode = "tool"
    /\ xProc.exited
    /\ xMain' = [pc |-> "returned", result |-> "ok"]
    /\ UNCHANGED <<xIn, xProc, xPipe, xRead, xBeat>>

InitToolPipes ==
    /\ EngineIdle /\ RouteOff /\ FilterOff /\ HideOff /\ VerifyOff /\ GraphOff
    /\ InitPipes("tool")

NextToolPipes ==
    \/ (SubprocessWrite /\ UNCHANGED <<engineVars, routeVars, filterVars, hideVars, verifyVars, graphVars>>)
    \/ (SubprocessExit /\ UNCHANGED <<engineVars, routeVars, filterVars, hideVars, verifyVars, graphVars>>)
    \/ (ReadAllStdout /\ UNCHANGED <<engineVars, routeVars, filterVars, hideVars, verifyVars, graphVars>>)
    \/ (ReadAllStderr /\ UNCHANGED <<engineVars, routeVars, filterVars, hideVars, verifyVars, graphVars>>)
    \/ (ToolWait /\ UNCHANGED <<engineVars, routeVars, filterVars, hideVars, verifyVars, graphVars>>)

SpecToolPipes == InitToolPipes /\ [][NextToolPipes]_vars

\* one iteration of the loop of readAndMaybeLogStream on stream s: a Read on
\* a read end that cmd.Wait has closed returns an error that is not io.EOF;
\* otherwise the bytes in the pipe are written to the log file, or the loop
\* ends at end-of-file once the subprocess has exited
readAndMaybeLogStream(s) ==
    /\ xRead[s].state = "reading"
    /\ IF xPipe[s].closed
       THEN /\ xRead' = [xRead EXCEPT ![s].state = "error"]
            /\ UNCHANGED xPipe
       ELSE IF xPipe[s].buf > 0
       THEN /\ xRead' = [xRead EXCEPT ![s].got = @ + xPipe[s].buf]
            /\ xPipe' = [xPipe EXCEPT ![s].buf = 0]
       ELSE /\ xProc.exited
            /\ xRead' = [xRead EXCEPT ![s].state = "eof"]
            /\ UNCHANGED xPipe
    /\ UNCHANGED <<xIn, xProc, xMain, xBeat>>

ReadStdout == readAndMaybeLogStream("stdout")
ReadStderr == readAndMaybeLogStream("stderr")

\* runErr := cmd.Wait(): returns once the subprocess has exited and closes the
\* read ends of the pipes made by StdoutPipe and StderrPipe
CmdWait ==
    /\ xMain.pc = "wait" /\ xIn.mode = "agent"
    /\ xProc.exited
    /\ xPipe' = [s \in Streams |-> [xPipe[s] EXCEPT !.closed = TRUE]]
    /\ xMain' = [xMain EXCEPT !.pc = "wgwait"]
    /\ UNCHANGED <<xIn, xProc, xRead, xBeat>>

\* wg.Wait(): both readers have called wg.Done
WgWait ==
    /\ xMain.pc = "wgwait"
    /\ \A s \in Streams : xRead[s].state \in {"eof", "error"}
    /\ xMain' = [xMain EXCEPT !.pc = "closedone"]
    /\ UNCHANGED <<xIn, xProc, xPipe, xRead, xBeat>>

\* close(heartbeatDone)
CloseHeartbeatDone ==
    /\ xMain.pc = "closedone"
    /\ xBeat' = [xBeat EXCEPT !.done = TRUE]
    /\ xMain' = [xMain EXCEPT !.pc = "check"]
    /\ UNCHANGED <<xIn, xProc, xPipe, xRead>>

\* the tests of outErr, errErr and runErr and the return of Run; the
\* subprocess exited with code 0 and left a valid response file
ReturnFromRun ==
    /\ xMain.pc = "check"
    /\ xMain' = [pc |-> "returned",
                 result |-> IF xRead["stdout"].state = "error" THEN "failed reading codex stdout"
                            ELSE IF xRead["stderr"].state = "error" THEN "failed reading codex stderr"
                            ELSE "ok"]
    /\ UNCHANGED <<xIn, xProc, xPipe, xRead, xBeat>>

\* the ticker sends on t.C (a channel with room for one tick)
Tick ==
    /\ xBeat.state = "select" /\ ~xBeat.tick
    /\ xBeat.emitted < MaxTicks
    /\ xBeat' = [xBeat EXCEPT !.tick = TRUE]
    /\ UNCHANGED <<xIn, xProc, xPipe, xRead, xMain>>

\* the select of the heartbeat goroutine takes the case <-t.C and logs
\* "codex exec still running"
HeartbeatEmit ==
    /\ xBeat.state = "select" /\ xBeat.tick
    /\ xBeat' = [xBeat EXCEPT !.tick = FALSE, !.emitted = @ + 1,
                              !.late = IF xMain.pc = "returned" THEN @ + 1 ELSE @]
    /\ UNCHANGED <<xIn, xProc, xPipe, xRead, xMain>>

\* the select takes the case <-heartbeatDone: the goroutine returns and the
\* deferred t.Stop() runs
HeartbeatStop ==
    /\ xBeat.state = "select" /\ xBeat.done
    /\ xBeat' = [xBeat EXCEPT !.state = "stopped"]
    /\ UNCHANGED <<xIn, xProc, xPipe, xRead, xMain>>

InitAgentPipes ==
    /\ EngineIdle /\ RouteOff /\ FilterOff /\ HideOff /\ VerifyOff /\ GraphOff
    /\ InitPipes("agent")

NextAgentPipes ==
    \/ (SubprocessWrite /\ UNCHANGED <<engineVars, routeVars, filterVars, hideVars, verifyVars, graphVars>>)
    \/ (SubprocessExit /\ UNCHANGED <<engineVars, routeVars, filterVars, hideVars, verifyVars, graphVars>>)
    \/ (ReadStdout /\ UNCHANGED <<engineVars, routeVars, filterVars, hideVars, verifyVars, graphVars>>)
    \/ (ReadStderr /\ UNCHANGED <<engineVars, routeVars, filterVars, hideVars, verifyVars, graphVars>>)
    \/ (CmdWait /\ UNCHANGED <<engineVars, routeVars, filterVars, hideVars, verifyVars, graphVars>>)
    \/ (WgWait /\ UNCHANGED <<engineVars, routeVars, filterVars, hideVars, verifyVars, graphVars>>)
    \/ (CloseHeartbeatDone /\ UNCHANGED <<engineVars, routeVars, filterVars, hideVars, verifyVars, graphVars>>)
    \/ (ReturnFromRun /\ UNCHANGED <<engineVars, routeVars, filterVars, hideVars, verifyVars, graphVars>>)
    \/ (Tick /\ UNCHANGED <<engineVars, routeVars, filterVars, hideVars, verifyVars, graphVars>>)
    \/ (HeartbeatEmit /\ UNCHANGED <<engineVars, routeVars, filterVars, hideVars, verifyVars, graphVars>>)
    \/ (HeartbeatStop /\ UNCHANGED <<engineVars, routeVars, filterVars, hideVars, verifyVars, graphVars>>)

SpecAgentPipes == InitAgentPipes /\ [][NextAgentPipes]_vars

----------------------------------------------------------------------------
(* C33: the readers of the agent's streams and cmd.Wait *)

AdapterReturned == xIn.mode = "agent" /\ xMain.pc = "returned"

ReadersFinished == \A s \in Streams : xRead[s].state \in {"eof", "error"}

\* each log file holds every byte the subprocess wrote to its stream
LogsComplete == \A s \in Streams : xRead[s].got = Written(xIn.script, s)

\* C33: when the adapter returns, both readers have finished, each log file
\* holds every byte the subprocess wrote to its stream, and an agent that exits
\* 0 with a valid response is not reported as failed, for every interleaving of
\* the readers with the exit of the subprocess.
C33_StreamsDrainedOnReturn ==
    AdapterReturned => ReadersFinished /\ LogsComplete /\ xMain.result = "ok"

\* what holds: the readers have finished when the adapter returns, and the
\* logs are complete whenever both readers reached end-of-file, which is when
\* the adapter does not report a failed read
C33_ReadersFinishedOnReturn ==
    AdapterReturned
    => /\ ReadersFinished
       /\ xMain.result = "ok" <=> \A s \in Streams : xRead[s].state = "eof"
       /\ xMain.result = "ok" => LogsComplete

\* cmd.Wait closed the pipe before the stdout reader had read what the
\* subprocess wrote: bytes are missing from the log and the run is reported
\* as failed
C33_BytesLost ==
    /\ AdapterReturned
    /\ xRead["stdout"].got < Written(xIn.script, "stdout")
    /\ xMain.result = "failed reading codex stdout"

\* every byte was logged and the run is reported as failed all the same
C33_FailedWithCompleteLogs ==
    AdapterReturned /\ LogsComplete /\ xMain.result # "ok"

\* the interleaving in which both readers reach end-of-file before cmd.Wait
C33_DrainedRun ==
    /\ AdapterReturned /\ LogsComplete /\ xMain.result = "ok"
    /\ Len(xIn.script) = MaxOutput

----------------------------------------------------------------------------
(* C34: the heartbeat after the adapter has returned *)

\* C34: the heartbeat ticker is stopped before the stage finishes: once the
\* adapter has returned, no further "still running" record is emitted.
C34_NoHeartbeatAfterReturn == xBeat.late = 0

\* what holds: heartbeatDone is closed before Run returns, on the one path
\* that follows the start of the ticker, and the stopped goroutine emits nothing
C34_DoneClosedBeforeReturn ==
    /\ [](AdapterReturned => xBeat.done)
    /\ [][xBeat.state = "stopped" => xBeat'.emitted = xBeat.emitted]_vars

\* a record emitted after Run returned
C34_LateHeartbeat ==
    AdapterReturned /\ xBeat.late > 0 /\ xBeat.done

\* the goroutine stopped before Run returned
C34_StoppedInTime ==
    /\ xIn.mode = "agent" /\ xMain.pc = "check"
    /\ xBeat.state = "stopped" /\ xBeat.emitted > 0

----------------------------------------------------------------------------
(* C38: toolHandler.Execute and the two pipes of its subprocess *)

\* no step of the subprocess or of the handler is possible
Deadlocked ==
    /\ xIn.mode = "tool" /\ xMain.pc \in {"readout", "readerr", "wait"}
    /\ ~(~xProc.exited /\ xProc.todo # <<>> /\ xPipe[Head(xProc.todo)].buf < PipeCap)
    /\ ~(~xProc.exited /\ xProc.todo = <<>>)
    /\ ~(xMain.pc = "readout" /\ (xPipe["stdout"].buf > 0 \/ xProc.exited))
    /\ ~(xMain.pc = "readerr" /\ (xPipe["stderr"].buf > 0 \/ xProc.exited))
    /\ ~(xMain.pc = "wait" /\ xProc.exited)

\* C38: the tool handler, which reads stdout to end-of-file and only then
\* stderr, cannot deadlock with a subprocess that terminates on its own, for any
\* amount and interleaving of output on the two pipes.
C38_ToolHandlerNeverDeadlocks == ~Deadlocked

\* what holds: no deadlock when the output on stderr fits into the pipe
C38_NoDeadlockWhenStderrFits ==
    Written(xIn.script, "stderr") <= PipeCap => ~Deadlocked

\* the subprocess is blocked writing to the full stderr pipe while the
\* handler waits for end-of-file on stdout
C38_DeadlockOnStderr ==
    /\ Deadlocked /\ xMain.pc = "readout"
    /\ xPipe["stderr"].buf = PipeCap /\ xPipe["stdout"].buf = 0
    /\ xProc.todo # <<>> /\ Head(xProc.todo) = "stderr"

\* a handler that returned with all the output of both streams
C38_Completed ==
    /\ xIn.mode = "tool" /\ xMain.pc = "returned"
    /\ \A s \in Streams : xRead[s].got = Written(xIn.script, s)
    /\ Written(xIn.script, "stdout") > PipeCap

====
